---- MODULE Spec2Model ----
(***************************************************************************)
(* A model of the Trino WebAssembly Python host (src/pyhost.c, pyhost.h):  *)
(* the type descriptor walker (skipType), the value decoder (doBuildArgs), *)
(* the value encoder (buildResult) with its growable buffer, the error     *)
(* translator (handleTrinoError) and the exported functions setup,         *)
(* execute, allocate and deallocate.                                       *)
(*                                                                         *)
(* Descriptors are sequences of 32-bit words addressed by a byte cursor,   *)
(* payloads and results are sequences of bytes.  Values wider than 32 bits *)
(* (i64, time_t, Python integers) are kept as sign-magnitude numbers with  *)
(* base-256 digits, least significant first ("Big"), so that the widths of *)
(* the C types and their overflows are those of the wasm32 build.          *)
(***************************************************************************)
EXTENDS Integers, Sequences, FiniteSets, TLC

VARIABLES pc, ub, trinoArgType, trinoReturnType, guestFunction, heap, drawn, call, rows

vars == <<pc, ub, trinoArgType, trinoReturnType, guestFunction, heap, drawn, call, rows>>

(***************************************************************************)
(* Sequences of bytes.                                                     *)
(***************************************************************************)
Byte == 0..255

Take(s, n) == SubSeq(s, 1, n)

Drop(s, n) == SubSeq(s, n + 1, Len(s))

Zeros(n) == [i \in 1..n |-> 0]

Fill(n, b) == [i \in 1..n |-> b]

(***************************************************************************)
(* Magnitudes: natural numbers as base-256 digits, least significant       *)
(* first, without leading (most significant) zero digits.                  *)
(***************************************************************************)
RECURSIVE Trim(_)
Trim(m) == IF Len(m) > 0 /\ m[Len(m)] = 0 THEN Trim(Take(m, Len(m) - 1)) ELSE m

RECURSIVE MagFromNat(_)
MagFromNat(n) == IF n = 0 THEN <<>> ELSE <<n % 256>> \o MagFromNat(n \div 256)

RECURSIVE MagCmpFrom(_, _, _)
MagCmpFrom(a, b, i) ==
    IF i = 0 THEN 0
    ELSE IF a[i] < b[i] THEN -1
    ELSE IF a[i] > b[i] THEN 1
    ELSE MagCmpFrom(a, b, i - 1)

MagCmp(a, b) ==
    IF Len(a) < Len(b) THEN -1
    ELSE IF Len(a) > Len(b) THEN 1
    ELSE MagCmpFrom(a, b, Len(a))

Digit(m, i) == IF i <= Len(m) THEN m[i] ELSE 0

RECURSIVE MagAddFrom(_, _, _, _)
MagAddFrom(a, b, i, carry) ==
    IF i > Len(a) /\ i > Len(b)
    THEN (IF carry = 0 THEN <<>> ELSE <<carry>>)
    ELSE LET s == Digit(a, i) + Digit(b, i) + carry
         IN  <<s % 256>> \o MagAddFrom(a, b, i + 1, s \div 256)

MagAdd(a, b) == MagAddFrom(a, b, 1, 0)

RECURSIVE MagSubFrom(_, _, _, _)
MagSubFrom(a, b, i, borrow) ==
    IF i > Len(a) THEN <<>>
    ELSE LET d == Digit(a, i) - Digit(b, i) - borrow
         IN  IF d < 0 THEN <<d + 256>> \o MagSubFrom(a, b, i + 1, 1)
             ELSE <<d>> \o MagSubFrom(a, b, i + 1, 0)

\* a - b for a >= b
MagSub(a, b) == Trim(MagSubFrom(a, b, 1, 0))

RECURSIVE MagMulFrom(_, _, _, _)
MagMulFrom(a, k, i, carry) ==
    IF i > Len(a) THEN MagFromNat(carry)
    ELSE LET p == a[i] * k + carry
         IN  <<p % 256>> \o MagMulFrom(a, k, i + 1, p \div 256)

\* a * k for 0 <= k < 2^22 (every partial product stays below 2^31)
MagMulSmall(a, k) == Trim(MagMulFrom(a, k, 1, 0))

RECURSIVE MagDivFrom(_, _, _, _)
MagDivFrom(a, k, i, rem) ==
    IF i = 0 THEN [q |-> <<>>, r |-> rem]
    ELSE LET cur  == rem * 256 + a[i]
             rest == MagDivFrom(a, k, i - 1, cur % k)
         IN  [q |-> rest.q \o <<cur \div k>>, r |-> rest.r]

\* quotient and remainder of a by k for 0 < k < 2^22
MagDivSmall(a, k) ==
    LET d == MagDivFrom(a, k, Len(a), 0) IN [q |-> Trim(d.q), r |-> d.r]

RECURSIVE MagToNatFrom(_, _)
MagToNatFrom(m, i) == IF i > Len(m) THEN 0 ELSE m[i] + 256 * MagToNatFrom(m, i + 1)

\* the value of a magnitude below 2^31
MagToNat(m) == MagToNatFrom(m, 1)

(***************************************************************************)
(* Big: signed integers of any width.                                      *)
(***************************************************************************)
MkBig(neg, mag) == [neg |-> neg /\ mag # <<>>, mag |-> mag]

BigZero == MkBig(FALSE, <<>>)

BigFromInt(n) ==
    IF n >= 0 THEN MkBig(FALSE, MagFromNat(n))
    ELSE MkBig(TRUE, MagAdd(MagFromNat(-(n + 1)), <<1>>))

BigNeg(a) == MkBig(~a.neg, a.mag)

BigAdd(a, b) ==
    IF a.neg = b.neg THEN MkBig(a.neg, MagAdd(a.mag, b.mag))
    ELSE IF MagCmp(a.mag, b.mag) >= 0 THEN MkBig(a.neg, MagSub(a.mag, b.mag))
    ELSE MkBig(b.neg, MagSub(b.mag, a.mag))

BigSub(a, b) == BigAdd(a, BigNeg(b))

\* a * k for an int k with |k| < 2^22
BigMulSmall(a, k) ==
    IF k >= 0 THEN MkBig(a.neg, MagMulSmall(a.mag, k))
    ELSE MkBig(~a.neg, MagMulSmall(a.mag, -k))

BigCmp(a, b) ==
    IF a.neg /\ ~b.neg THEN -1
    ELSE IF ~a.neg /\ b.neg THEN 1
    ELSE IF a.neg THEN MagCmp(b.mag, a.mag)
    ELSE MagCmp(a.mag, b.mag)

BigLe(a, b) == BigCmp(a, b) <= 0

\* C's a / k on signed operands, 0 < k < 2^22: the quotient truncates toward zero
BigDivTrunc(a, k) == MkBig(a.neg, MagDivSmall(a.mag, k).q)

\* C's a % k, 0 < k < 2^22: the remainder takes the sign of a (an int)
BigRemTrunc(a, k) ==
    LET r == MagDivSmall(a.mag, k).r IN IF a.neg THEN -r ELSE r

\* floor(a / k) and a - k * floor(a / k), 0 < k < 2^22
BigDivFloor(a, k) ==
    LET d == MagDivSmall(a.mag, k)
    IN  IF a.neg /\ d.r # 0 THEN MkBig(TRUE, MagAdd(d.q, <<1>>))
        ELSE MkBig(a.neg, d.q)

BigModFloor(a, k) ==
    LET r == MagDivSmall(a.mag, k).r
    IN  IF a.neg /\ r # 0 THEN k - r ELSE r

\* whether a lies in the signed range of the given number of bits (8..64)
BigFitsSigned(a, bits) ==
    LET top == Zeros((bits \div 8) - 1) \o <<128>>     \* 2^(bits-1)
    IN  IF a.neg THEN MagCmp(a.mag, top) <= 0 ELSE MagCmp(a.mag, top) < 0

\* the value of a Big that fits in 32 signed bits, as an int
BigToInt(a) ==
    IF ~a.neg THEN MagToNat(a.mag)
    ELSE -(MagToNat(MagSub(a.mag, <<1>>))) - 1

(***************************************************************************)
(* Little-endian two's complement, as the wasm32 build stores integers.    *)
(***************************************************************************)
RECURSIVE Incr(_)
Incr(bytes) ==
    IF bytes = <<>> THEN <<>>
    ELSE IF bytes[1] = 255 THEN <<0>> \o Incr(Tail(bytes))
    ELSE <<bytes[1] + 1>> \o Tail(bytes)

Invert(bytes) == [i \in 1..Len(bytes) |-> 255 - bytes[i]]

\* the low w bytes of a (conversion to a w-byte integer keeps the low bits)
BigToBytes(a, w) ==
    LET low == [i \in 1..w |-> Digit(a.mag, i)]
    IN  IF a.neg THEN Incr(Invert(low)) ELSE low

\* the signed value of w little-endian bytes
BigFromBytes(bytes) ==
    IF bytes # <<>> /\ bytes[Len(bytes)] >= 128
    THEN MkBig(TRUE, Trim(Incr(Invert(bytes))))
    ELSE MkBig(FALSE, Trim(bytes))

IntToBytes(n, w) == BigToBytes(BigFromInt(n), w)

IntFromBytes(bytes) == BigToInt(BigFromBytes(bytes))

\* int arithmetic of the build: the result of a 32-bit signed operation whose
\* mathematical value is a, wrapped to 32 bits
WrapI32(a) == BigFromBytes(BigToBytes(a, 4))

(***************************************************************************)
(* Trino type codes (pyhost.h) and the type descriptor.                    *)
(***************************************************************************)
ROW == 0
ARRAY == 1
MAP == 2
T_BOOLEAN == 3   \* BOOLEAN (a reserved word of TLA+)
BIGINT == 4
INTEGER == 5
SMALLINT == 6
TINYINT == 7
DOUBLE == 8
REAL == 9
DECIMAL == 10
VARCHAR == 11
VARBINARY == 12
DATE == 13
TIME == 14
TIME_WITH_TIME_ZONE == 15
TIMESTAMP == 16
TIMESTAMP_WITH_TIME_ZONE == 17
INTERVAL_YEAR_TO_MONTH == 18
INTERVAL_DAY_TO_SECOND == 19
JSON == 20
UUID == 21
IPADDRESS == 22

\* the case labels of skipType that only break
ScalarCodes == T_BOOLEAN..IPADDRESS

\* error codes of trinoReturnError
NUMERIC_VALUE_OUT_OF_RANGE == 19
EXCEEDED_FUNCTION_MEMORY_LIMIT == 37
FUNCTION_IMPLEMENTATION_ERROR == 65549

\* const static i64 MICROSECONDS
MICROSECONDS == 1000000

(***************************************************************************)
(* A descriptor is a sequence of 32-bit words; a cursor (a u8 pointer) is a *)
(* byte offset into it.  A read past the last word leaves the region the   *)
(* engine passed to setup: the walk stops with status "oob".               *)
(***************************************************************************)
InType(desc, t) == t >= 0 /\ t % 4 = 0 /\ t \div 4 < Len(desc)

TypeWord(desc, t) == desc[t \div 4 + 1]

Walk(t, st) == [t |-> t, st |-> st]

\* a skip that takes every code for a scalar
skipOneWord(desc, t) == Walk(t + 4, "ok")

RECURSIVE skipType(_, _)
RECURSIVE skipFields(_, _, _)

\* a loop that skips no field
skipNoFields(desc, t, count) == Walk(t, "ok")

\* the for loop of skipType's case ROW: count more subtrees from t
skipFields(desc, t, count) ==
    IF count <= 0 THEN Walk(t, "ok")
    ELSE LET f == skipType(desc, t)
         IN  IF f.st # "ok" THEN f ELSE skipFields(desc, f.t, count - 1)

skipType(desc, t) ==
    IF ~InType(desc, t) THEN Walk(t, "oob")
    ELSE LET trinoType == TypeWord(desc, t)
         IN  CASE trinoType = ROW ->
                    IF ~InType(desc, t + 4) THEN Walk(t + 4, "oob")
                    ELSE skipFields(desc, t + 8, TypeWord(desc, t + 4))
               [] trinoType = ARRAY -> skipType(desc, t + 4)
               [] trinoType = MAP ->
                    LET key == skipType(desc, t + 4)
                    IN  IF key.st # "ok" THEN key ELSE skipType(desc, key.t)
               [] trinoType \in ScalarCodes -> Walk(t + 4, "ok")
               [] OTHER -> Walk(t + 4, "fatal")

(***************************************************************************)
(* Type trees and their descriptors, as the engine serialises a signature: *)
(* a code, then for ROW the field count and the fields, for ARRAY the      *)
(* element, for MAP the key and the value.                                 *)
(***************************************************************************)
Scalar(code) == [code |-> code, kids |-> <<>>]

RowOf(kids) == [code |-> ROW, kids |-> kids]

ArrayOf(elem) == [code |-> ARRAY, kids |-> <<elem>>]

MapOf(key, value) == [code |-> MAP, kids |-> <<key, value>>]

RECURSIVE Descriptor(_)
RECURSIVE DescriptorAll(_)

DescriptorAll(kids) ==
    IF kids = <<>> THEN <<>> ELSE Descriptor(Head(kids)) \o DescriptorAll(Tail(kids))

Descriptor(tree) ==
    IF tree.code = ROW THEN <<ROW, Len(tree.kids)>> \o DescriptorAll(tree.kids)
    ELSE <<tree.code>> \o DescriptorAll(tree.kids)

(***************************************************************************)
(* The C library's UTC calendar: gmtime and timegm (proleptic Gregorian).  *)
(* time_t is 64 bits wide in the build, a struct tm holds ints.            *)
(***************************************************************************)
IsLeap(y) == (y % 4 = 0 /\ y % 100 # 0) \/ y % 400 = 0

DaysInMonth(y, m) ==
    IF m = 2 THEN (IF IsLeap(y) THEN 29 ELSE 28)
    ELSE IF m \in {4, 6, 9, 11} THEN 30 ELSE 31

\* the civil date of a day number (days since 1970-01-01)
CivilFromDays(days) ==
    LET z   == days + 719468
        era == z \div 146097
        Date(yoe, doy, mp) ==
            [y |-> yoe + era * 400 + (IF mp >= 10 THEN 1 ELSE 0),
             m |-> IF mp < 10 THEN mp + 3 ELSE mp - 9,
             d |-> doy - (153 * mp + 2) \div 5 + 1]
        DayOfYear(yoe, doy) == Date(yoe, doy, (5 * doy + 2) \div 153)
        YearOfEra(doe, yoe) ==
            DayOfYear(yoe, doe - (365 * yoe + yoe \div 4 - yoe \div 100))
        DayOfEra(doe) ==
            YearOfEra(doe, (doe - doe \div 1460 + doe \div 36524 - doe \div 146096) \div 365)
    IN  DayOfEra(z - era * 146097)

\* the day number of a civil date
DaysFromCivil(y, m, d) ==
    LET yy  == IF m <= 2 THEN y - 1 ELSE y
        era == yy \div 400
        yoe == yy - era * 400
        doy == (153 * (IF m > 2 THEN m - 3 ELSE m + 9) + 2) \div 5 + d - 1
        doe == yoe * 365 + yoe \div 4 - yoe \div 100 + doy
    IN  era * 146097 + doe - 719468

\* Day numbers this far from the epoch lie outside the years 1..9999 on either
\* side; the calendar fields of a day beyond are those of the limit day, whose
\* year every date constructor of the runtime refuses just the same.
CivilLimit == 4000000

ClampDay(day) ==
    IF BigCmp(day, BigFromInt(CivilLimit)) > 0 THEN CivilLimit
    ELSE IF BigCmp(day, BigFromInt(-CivilLimit)) < 0 THEN -CivilLimit
    ELSE BigToInt(day)

\* gmtime(&time) for a 64-bit time_t (a Big)
gmtime(time) ==
    LET tm(c, rem) ==
            [tm_year |-> c.y - 1900, tm_mon |-> c.m - 1, tm_mday |-> c.d,
             tm_hour |-> rem \div 3600, tm_min |-> (rem \div 60) % 60, tm_sec |-> rem % 60]
    IN  tm(CivilFromDays(ClampDay(BigDivFloor(time, 86400))), BigModFloor(time, 86400))

\* timegm(&t): a 64-bit time_t (a Big)
timegm(t) ==
    BigAdd(BigMulSmall(BigFromInt(DaysFromCivil(t.tm_year + 1900, t.tm_mon + 1, t.tm_mday)),
                       86400),
           BigFromInt(t.tm_hour * 3600 + t.tm_min * 60 + t.tm_sec))

(***************************************************************************)
(* Runtime objects.  An integer holds a Big; a float holds the bits of its *)
(* double; str holds its UTF-8 bytes; tz is <<>> for a naive time or       *)
(* datetime and <<delta>> for one with a fixed UTC offset.                 *)
(***************************************************************************)
Py_None == [k |-> "None"]

PyBool(b) == [k |-> "bool", truth |-> b]

PyLong(big) == [k |-> "int", v |-> big]

PyFloat(bits) == [k |-> "float", bits |-> bits]

PyUnicode(utf8) == [k |-> "str", utf8 |-> utf8]

PyBytes(b) == [k |-> "bytes", b |-> b]

PyDecimal(neg, digits, exp) ==
    [k |-> "Decimal", neg |-> neg, digits |-> digits, exp |-> exp, special |-> ""]

PyDecimalSpecial(neg, special) ==
    [k |-> "Decimal", neg |-> neg, digits |-> <<>>, exp |-> 0, special |-> special]

PyDate(y, m, d) == [k |-> "date", y |-> y, m |-> m, d |-> d]

PyTime(H, M, S, us, tz) ==
    [k |-> "time", H |-> H, M |-> M, S |-> S, us |-> us, tz |-> tz]

PyDateTime(y, m, d, H, M, S, us, tz) ==
    [k |-> "datetime", y |-> y, m |-> m, d |-> d,
     H |-> H, M |-> M, S |-> S, us |-> us, tz |-> tz]

PyDelta(days, seconds, microseconds) ==
    [k |-> "timedelta", days |-> days, seconds |-> seconds, microseconds |-> microseconds]

PyUUID(b) == [k |-> "UUID", b |-> b]

PyIPv4(b) == [k |-> "IPv4Address", b |-> b]

PyIPv6(b) == [k |-> "IPv6Address", b |-> b]

PyTuple(items) == [k |-> "tuple", items |-> items]

PyList(items) == [k |-> "list", items |-> items]

\* a dict keeps its entries <<key, value>> in insertion order
PyDict(items) == [k |-> "dict", items |-> items]

(***************************************************************************)
(* Constructors of the runtime that can fail: each yields [ok, obj], and   *)
(* ok = FALSE stands for a NULL result with an exception set.              *)
(***************************************************************************)
Made(obj) == [ok |-> TRUE, obj |-> obj]

Null == [ok |-> FALSE, obj |-> Py_None]

ValidDate(y, m, d) ==
    /\ y \in 1..9999
    /\ m \in 1..12
    /\ d >= 1
    /\ d <= DaysInMonth(y, m)

ValidTime(H, M, S, us) ==
    H \in 0..23 /\ M \in 0..59 /\ S \in 0..59 /\ us \in 0..999999

PyDate_FromDate(y, m, d) == IF ValidDate(y, m, d) THEN Made(PyDate(y, m, d)) ELSE Null

Time_FromTime(H, M, S, us, tz) ==
    IF ValidTime(H, M, S, us) THEN Made(PyTime(H, M, S, us, tz)) ELSE Null

DateTime_FromDateAndTime(y, m, d, H, M, S, us, tz) ==
    IF ValidDate(y, m, d) /\ ValidTime(H, M, S, us)
    THEN Made(PyDateTime(y, m, d, H, M, S, us, tz)) ELSE Null

\* the largest number of days of a timedelta
MAX_DELTA_DAYS == 999999999

\* PyDelta_FromDSU normalises its arguments: 0 <= seconds < 86400,
\* 0 <= microseconds < 10^6, and refuses a day count out of range
PyDelta_FromDSU(days, seconds, useconds) ==
    LET us == useconds % MICROSECONDS
        s1 == seconds + useconds \div MICROSECONDS
        s  == s1 % 86400
        Delta(d) ==
            IF BigCmp(d, BigFromInt(MAX_DELTA_DAYS)) > 0
               \/ BigCmp(d, BigFromInt(-MAX_DELTA_DAYS)) < 0
            THEN Null
            ELSE Made(PyDelta(BigToInt(d), s, us))
    IN  Delta(BigAdd(BigFromInt(days), BigFromInt(s1 \div 86400)))

\* PyTimeZone_FromOffset: the offset must lie strictly between -24 h and 24 h
PyTimeZone_FromOffset(delta) ==
    IF \/ (delta.days = -1 /\ delta.seconds = 0 /\ delta.microseconds < 1)
       \/ delta.days < -1
       \/ delta.days >= 1
    THEN Null
    ELSE Made(<<delta>>)

\* the UTF-8 decoder of PyUnicode_FromStringAndSize: every byte that is not a
\* continuation byte starts a well-formed sequence, which the next one follows
Utf8Len(lead) ==
    IF lead < 128 THEN 1
    ELSE IF lead \in 194..223 THEN 2
    ELSE IF lead \in 224..239 THEN 3
    ELSE IF lead \in 240..244 THEN 4
    ELSE 0

Utf8Cont(x) == x \in 128..191

Utf8Valid(b) ==
    /\ (b # <<>> => ~Utf8Cont(b[1]))
    /\ \A i \in 1..Len(b) :
          Utf8Cont(b[i]) \/
          LET n == Utf8Len(b[i])
          IN  /\ n > 0
              /\ i + n - 1 <= Len(b)
              /\ \A j \in (i + 1)..(i + n - 1) : Utf8Cont(b[j])
              /\ (i + n <= Len(b) => ~Utf8Cont(b[i + n]))
              /\ (b[i] = 224 => b[i + 1] >= 160)
              /\ (b[i] = 237 => b[i + 1] <= 159)
              /\ (b[i] = 240 => b[i + 1] >= 144)
              /\ (b[i] = 244 => b[i + 1] <= 143)

PyUnicode_FromStringAndSize(bytes, size) ==
    IF size < 0 \/ ~Utf8Valid(bytes) THEN Null ELSE Made(PyUnicode(bytes))

PyBytes_FromStringAndSize(bytes, size) ==
    IF size < 0 THEN Null ELSE Made(PyBytes(bytes))

(***************************************************************************)
(* IEEE-754: the conversions between f32 and f64 that the build performs   *)
(* when a REAL is read into a double and a double is stored as a REAL.     *)
(* Bits are little-endian byte sequences.                                  *)
(***************************************************************************)
RECURSIVE Pow2(_)
Pow2(n) == IF n = 0 THEN 1 ELSE 2 * Pow2(n - 1)

\* m shifted left by n bits, 20 bits at a time
RECURSIVE MagShl(_, _)
MagShl(m, n) ==
    IF n <= 20 THEN MagMulSmall(m, Pow2(n))
    ELSE MagShl(MagMulSmall(m, 1048576), n - 20)

\* m shifted right by n bits, with whether a one bit was shifted out
RECURSIVE MagShr(_, _)
MagShr(m, n) ==
    IF n <= 20
    THEN LET d == MagDivSmall(m, Pow2(n)) IN [q |-> d.q, sticky |-> d.r # 0]
    ELSE LET d    == MagDivSmall(m, 1048576)
             rest == MagShr(d.q, n - 20)
         IN  [q |-> rest.q, sticky |-> rest.sticky \/ d.r # 0]

RECURSIVE Log2(_)
Log2(n) == IF n <= 1 THEN 0 ELSE 1 + Log2(n \div 2)

F64Bits(sign, e, frac) ==
    LET f == [i \in 1..7 |-> Digit(frac, i)]
    IN  SubSeq(f, 1, 6) \o <<(e % 16) * 16 + f[7], sign * 128 + e \div 16>>

F32Bits(sign, e, frac) ==
    <<frac % 256, (frac \div 256) % 256, (e % 2) * 128 + frac \div 65536,
      sign * 128 + e \div 2>>

\* (f64) of an f32
F32ToF64(b) ==
    LET sign == b[4] \div 128
        e    == (b[4] % 128) * 2 + b[3] \div 128
        frac == (b[3] % 128) * 65536 + b[2] * 256 + b[1]
        p    == Log2(frac)
    IN  IF e = 255
        THEN F64Bits(sign, 2047,
                     IF frac = 0 THEN <<>>
                     ELSE MagShl(MagFromNat(frac + (IF frac < 4194304 THEN 4194304 ELSE 0)), 29))
        ELSE IF e = 0 /\ frac = 0 THEN F64Bits(sign, 0, <<>>)
        ELSE IF e = 0 THEN F64Bits(sign, 874 + p, MagShl(MagFromNat(frac - Pow2(p)), 52 - p))
        ELSE F64Bits(sign, e + 896, MagShl(MagFromNat(frac), 29))

\* (f32) of an f64: round to nearest, ties to even
F64ToF32(b) ==
    LET sign  == b[8] \div 128
        e     == (b[8] % 128) * 16 + b[7] \div 16
        frac  == Trim(SubSeq(b, 1, 6) \o <<b[7] % 16>>)
        E     == e - 1023
        shift == IF E >= -126 THEN 29 ELSE 29 + (-126 - E)
        \* the f32 of the rounded significand r
        Bits(r) ==
            IF E < -126 THEN F32Bits(sign, r \div 8388608, r % 8388608)
            ELSE IF r = 16777216
                 THEN (IF E + 1 > 127 THEN F32Bits(sign, 255, 0) ELSE F32Bits(sign, E + 128, 0))
            ELSE IF E > 127 THEN F32Bits(sign, 255, 0)
            ELSE F32Bits(sign, E + 127, r - 8388608)
        \* q2 is the significand with one bit more, sticky what lay below it
        Round(q2, sticky) ==
            Bits(IF q2 % 2 = 1 /\ (sticky \/ (q2 \div 2) % 2 = 1)
                 THEN q2 \div 2 + 1 ELSE q2 \div 2)
        Shifted(s) == Round(MagToNat(s.q), s.sticky)
    IN  IF e = 2047
        THEN (IF frac = <<>> THEN F32Bits(sign, 255, 0)
              ELSE F32Bits(sign, 255, 4194304 + (MagToNat(MagShr(frac, 29).q) % 4194304)))
        ELSE IF e = 0 \/ shift > 54 THEN F32Bits(sign, 0, 0)
        ELSE Shifted(MagShr(MagAdd(frac, <<0, 0, 0, 0, 0, 0, 16>>), shift - 1))

(***************************************************************************)
(* decimal.Decimal(text): [sign] digits [. digits] [e [sign] digits], or a *)
(* special value.  A Decimal holds its sign, the digits of its coefficient *)
(* and its exponent, as as_tuple() shows them; a special value is marked   *)
(* "F" (infinity) or "n" (NaN).  Surrounding white space and               *)
(* underscores between digits, which the constructor also accepts, do not  *)
(* occur in the texts of this model.                                       *)
(***************************************************************************)
IsDigit(x) == x \in 48..57

RECURSIVE StripZeros(_)
StripZeros(ds) == IF Len(ds) > 1 /\ ds[1] = 48 THEN StripZeros(Tail(ds)) ELSE ds

RECURSIVE DigitsValue(_)
DigitsValue(ds) ==
    IF ds = <<>> THEN 0 ELSE DigitsValue(Take(ds, Len(ds) - 1)) * 10 + (ds[Len(ds)] - 48)

Lower(b) == [i \in 1..Len(b) |-> IF b[i] \in 65..90 THEN b[i] + 32 ELSE b[i]]

\* the longest exponent the model reads; a longer one is refused as the
\* 32-bit decimal library refuses an exponent beyond its limits
MaxExpDigits == 8

DecimalFromText(text) ==
    LET neg    == text # <<>> /\ text[1] = 45
        body   == IF text # <<>> /\ text[1] \in {43, 45} THEN Tail(text) ELSE text
        es     == {i \in 1..Len(body) : body[i] \in {69, 101}}
        epos   == IF es = {} THEN Len(body) + 1 ELSE CHOOSE i \in es : TRUE
        mant   == Take(body, epos - 1)
        etext  == Drop(body, epos)
        eneg   == etext # <<>> /\ etext[1] = 45
        edig   == IF etext # <<>> /\ etext[1] \in {43, 45} THEN Tail(etext) ELSE etext
        dots   == {i \in 1..Len(mant) : mant[i] = 46}
        dot    == IF dots = {} THEN Len(mant) + 1 ELSE CHOOSE i \in dots : TRUE
        coeff  == Take(mant, dot - 1) \o Drop(mant, dot)
        nfrac  == IF dots = {} THEN 0 ELSE Len(mant) - dot
        eval   == IF es = {} THEN 0
                  ELSE IF eneg THEN -DigitsValue(edig) ELSE DigitsValue(edig)
        low    == Lower(body)
    IN  IF low \in {<<105, 110, 102>>, <<105, 110, 102, 105, 110, 105, 116, 121>>}
        THEN Made(PyDecimalSpecial(neg, "F"))
        ELSE IF low = <<110, 97, 110>> THEN Made(PyDecimalSpecial(neg, "n"))
        ELSE IF /\ Cardinality(es) <= 1
                /\ Cardinality(dots) <= 1
                /\ coeff # <<>>
                /\ \A i \in 1..Len(coeff) : IsDigit(coeff[i])
                /\ (es # {} => /\ edig # <<>>
                               /\ Len(edig) <= MaxExpDigits
                               /\ \A i \in 1..Len(edig) : IsDigit(edig[i]))
        THEN Made(PyDecimal(neg, StripZeros(coeff), eval - nfrac))
        ELSE Null

\* PyObject_CallOneArg(decimalClass, number)
Decimal_New(number) == DecimalFromText(number.utf8)

\* format(value, 'f'): the text of a finite Decimal without an exponent
DecimalPlainText(v) ==
    LET n    == Len(v.digits)
        sign == IF v.neg THEN <<45>> ELSE <<>>
    IN  IF v.exp >= 0
        THEN sign \o (IF v.digits = <<48>> THEN <<48>> ELSE v.digits \o Fill(v.exp, 48))
        ELSE IF n > -v.exp
        THEN sign \o Take(v.digits, n + v.exp) \o <<46>> \o Drop(v.digits, n + v.exp)
        ELSE sign \o <<48, 46>> \o Fill(-v.exp - n, 48) \o v.digits

(***************************************************************************)
(* Signed overflow of int arithmetic is undefined in C.  The build decides *)
(* what such an expression yields: ub = "wrap" is the 32-bit operation of  *)
(* the target (the low 32 bits), ub = "wide" the value computed in the     *)
(* 64-bit type the expression is converted to.                             *)
(***************************************************************************)
IntResult(exact) ==
    IF BigFitsSigned(exact, 32) THEN exact
    ELSE IF ub = "wrap" THEN WrapI32(exact) ELSE exact

\* conversion of an i64 to int keeps the low 32 bits
NarrowInt(a) == BigToInt(WrapI32(a))

(***************************************************************************)
(* The payload: bytes addressed by a byte cursor (const u8* data).  A read *)
(* past the last byte leaves the region the engine wrote: status "oob".    *)
(***************************************************************************)
Avail(mem, d, n) == d >= 0 /\ n >= 0 /\ d + n <= Len(mem)

Bytes(mem, d, n) == SubSeq(mem, d + 1, d + n)

readI8(mem, d) == IntFromBytes(Bytes(mem, d, 1))

readI16(mem, d) == IntFromBytes(Bytes(mem, d, 2))

readI32(mem, d) == IntFromBytes(Bytes(mem, d, 4))

readI64(mem, d) == BigFromBytes(Bytes(mem, d, 8))

\* results of decoding a scalar: the object and the data cursor after it
SOk(obj, d) == [obj |-> obj, d |-> d, st |-> "ok"]

SFatal(d) == [obj |-> Py_None, d |-> d, st |-> "fatal"]

SOob(d) == [obj |-> Py_None, d |-> d, st |-> "oob"]

\* checked(value): FATAL on NULL
checked(r, d) == IF r.ok THEN SOk(r.obj, d) ELSE SFatal(d)

\* the length-prefixed values: DECIMAL, VARCHAR, JSON, VARBINARY
decodeSized(trinoType, mem, d) ==
    LET Str(text, end) ==
            IF ~text.ok THEN SFatal(d + 4)
            ELSE IF trinoType = DECIMAL THEN checked(Decimal_New(text.obj), end)
            ELSE SOk(text.obj, end)
        Sized(size, bytes) ==
            IF size < 0 THEN SFatal(d + 4)
            ELSE IF ~Avail(mem, d + 4, size) THEN SOob(d + 4)
            ELSE IF trinoType = VARBINARY
                 THEN checked(PyBytes_FromStringAndSize(bytes, size), d + 4 + size)
            ELSE Str(PyUnicode_FromStringAndSize(bytes, size), d + 4 + size)
        Prefixed(size) == Sized(size, Bytes(mem, d + 4, size))
    IN  IF ~Avail(mem, d, 4) THEN SOob(d) ELSE Prefixed(readI32(mem, d))

\* const time_t time = days * (24 * 60 * 60): a product of two ints
dateSeconds(days) == IntResult(BigMulSmall(BigFromInt(days), 24 * 60 * 60))

decodeDATE(mem, d) ==
    LET Date(t) == checked(PyDate_FromDate(t.tm_year + 1900, t.tm_mon + 1, t.tm_mday), d + 4)
    IN  Date(gmtime(dateSeconds(readI32(mem, d))))

\* TIME and TIME_WITH_TIME_ZONE
decodeTIME(trinoType, mem, d) ==
    LET Time(hour, minute, second, usecond) ==
            LET Zone(tz) ==
                    IF ~tz.ok THEN SFatal(d + 10)
                    ELSE checked(Time_FromTime(hour, minute, second, usecond, tz.obj), d + 10)
                Zoned(delta) ==
                    IF ~delta.ok THEN SFatal(d + 10)
                    ELSE Zone(PyTimeZone_FromOffset(delta.obj))
            IN  IF trinoType = TIME
                THEN checked(Time_FromTime(hour, minute, second, usecond, <<>>), d + 8)
                ELSE Zoned(PyDelta_FromDSU(0, readI16(mem, d + 8) * 60, 0))
        Split(time, secs) ==
            Time(NarrowInt(BigDivTrunc(secs, 60 * 60)),
                 BigRemTrunc(BigDivTrunc(secs, 60), 60),
                 BigRemTrunc(secs, 60),
                 BigRemTrunc(time, MICROSECONDS))
        Micros(time) == Split(time, BigDivTrunc(time, MICROSECONDS))
    IN  Micros(readI64(mem, d))

\* TIMESTAMP and TIMESTAMP_WITH_TIME_ZONE
decodeTIMESTAMP(trinoType, mem, d) ==
    LET Fields(t, usecond, offset) ==
            LET Zone(tz) ==
                    IF ~tz.ok THEN SFatal(d + 10)
                    ELSE checked(DateTime_FromDateAndTime(
                                     t.tm_year + 1900, t.tm_mon + 1, t.tm_mday,
                                     t.tm_hour, t.tm_min, t.tm_sec, usecond, tz.obj),
                                 d + 10)
                Zoned(delta) ==
                    IF ~delta.ok THEN SFatal(d + 10)
                    ELSE Zone(PyTimeZone_FromOffset(delta.obj))
            IN  IF trinoType = TIMESTAMP
                THEN checked(DateTime_FromDateAndTime(
                                 t.tm_year + 1900, t.tm_mon + 1, t.tm_mday,
                                 t.tm_hour, t.tm_min, t.tm_sec, usecond, <<>>),
                             d + 8)
                ELSE Zoned(PyDelta_FromDSU(0, offset * 60, 0))
        Stamp(ts, offset) ==
            Fields(gmtime(BigAdd(BigDivTrunc(ts, MICROSECONDS), BigFromInt(offset * 60))),
                   BigRemTrunc(ts, MICROSECONDS), offset)
    IN  Stamp(readI64(mem, d), IF trinoType = TIMESTAMP THEN 0 ELSE readI16(mem, d + 8))

decodeINTERVAL_DAY_TO_SECOND(mem, d) ==
    LET Delta(millis, secs) ==
            checked(PyDelta_FromDSU(NarrowInt(BigDivTrunc(secs, 24 * 60 * 60)),
                                    BigRemTrunc(secs, 24 * 60 * 60),
                                    BigRemTrunc(millis, 1000) * 1000),
                    d + 8)
        Millis(millis) == Delta(millis, BigDivTrunc(millis, 1000))
    IN  Millis(readI64(mem, d))

\* a decoder that takes every address for an IPv6 address
decodeIPv6Always(mem, d) == SOk(PyIPv6(Bytes(mem, d, 16)), d + 16)

\* case IPADDRESS: raw[0], raw[1] and raw[2] are little-endian words
decodeIPADDRESS(mem, d) ==
    LET raw0 == Trim(Bytes(mem, d, 4))
        raw1 == Trim(Bytes(mem, d + 4, 4))
        raw2 == Trim(Bytes(mem, d + 8, 4))
    IN  IF raw0 = <<>> /\ raw1 = <<>> /\ raw2 = <<0, 0, 255, 255>>
        THEN SOk(PyIPv4(Bytes(mem, d + 12, 4)), d + 16)
        ELSE SOk(PyIPv6(Bytes(mem, d, 16)), d + 16)

\* the fixed number of data bytes a scalar case of doBuildArgs reads first
FixedWidth(trinoType) ==
    CASE trinoType \in {T_BOOLEAN, TINYINT} -> 1
      [] trinoType = SMALLINT -> 2
      [] trinoType \in {INTEGER, REAL, DATE, INTERVAL_YEAR_TO_MONTH} -> 4
      [] trinoType \in {BIGINT, DOUBLE, TIME, TIMESTAMP, INTERVAL_DAY_TO_SECOND} -> 8
      [] trinoType \in {TIME_WITH_TIME_ZONE, TIMESTAMP_WITH_TIME_ZONE} -> 10
      [] trinoType \in {UUID, IPADDRESS} -> 16
      [] OTHER -> 4

\* the scalar cases of doBuildArgs's switch
decodeScalar(trinoType, mem, d) ==
    IF trinoType \in {DECIMAL, VARCHAR, JSON, VARBINARY} THEN decodeSized(trinoType, mem, d)
    ELSE IF ~Avail(mem, d, FixedWidth(trinoType)) THEN SOob(d)
    ELSE CASE trinoType = T_BOOLEAN -> SOk(PyBool(readI8(mem, d) # 0), d + 1)
           [] trinoType = BIGINT -> SOk(PyLong(readI64(mem, d)), d + 8)
           [] trinoType = INTEGER -> SOk(PyLong(BigFromInt(readI32(mem, d))), d + 4)
           [] trinoType = SMALLINT -> SOk(PyLong(BigFromInt(readI16(mem, d))), d + 2)
           [] trinoType = TINYINT -> SOk(PyLong(BigFromInt(readI8(mem, d))), d + 1)
           [] trinoType = DOUBLE -> SOk(PyFloat(Bytes(mem, d, 8)), d + 8)
           [] trinoType = REAL -> SOk(PyFloat(F32ToF64(Bytes(mem, d, 4))), d + 4)
           [] trinoType = DATE -> decodeDATE(mem, d)
           [] trinoType \in {TIME, TIME_WITH_TIME_ZONE} -> decodeTIME(trinoType, mem, d)
           [] trinoType \in {TIMESTAMP, TIMESTAMP_WITH_TIME_ZONE} ->
                decodeTIMESTAMP(trinoType, mem, d)
           [] trinoType = INTERVAL_YEAR_TO_MONTH ->
                SOk(PyLong(BigFromInt(readI32(mem, d))), d + 4)
           [] trinoType = INTERVAL_DAY_TO_SECOND -> decodeINTERVAL_DAY_TO_SECOND(mem, d)
           [] trinoType = UUID -> SOk(PyUUID(Bytes(mem, d, 16)), d + 16)
           [] trinoType = IPADDRESS -> decodeIPADDRESS(mem, d)

(***************************************************************************)
(* The value decoder.  A result holds the object, both cursors after the   *)
(* value and a status: "ok", "fatal" (FATAL was called: the instance has   *)
(* exited) or "oob" (a cursor left its region).                            *)
(***************************************************************************)
Decoded(obj, t, d) == [obj |-> obj, t |-> t, d |-> d, st |-> "ok"]

Stopped(st, t, d) == [obj |-> Py_None, t |-> t, d |-> d, st |-> st]

\* whether PyDict_SetItem can hash the key
RECURSIVE Hashable(_)
Hashable(obj) ==
    CASE obj.k \in {"list", "dict"} -> FALSE
      [] obj.k = "tuple" -> \A i \in 1..Len(obj.items) : Hashable(obj.items[i])
      [] OTHER -> TRUE

\* PyDict_SetItem on the entries of a dict: a key already present keeps its place
DictSetItem(items, key, value) ==
    IF \E i \in 1..Len(items) : items[i][1] = key
    THEN [i \in 1..Len(items) |-> IF items[i][1] = key THEN <<key, value>> ELSE items[i]]
    ELSE Append(items, <<key, value>>)

RECURSIVE doBuildArgs(_, _, _, _)
RECURSIVE decodeFields(_, _, _, _, _, _)
RECURSIVE decodeElements(_, _, _, _, _, _, _)
RECURSIVE decodeEntries(_, _, _, _, _, _, _)

\* the loop of case ROW: fields i..count-1, appended to the items so far
decodeFields(desc, t, mem, d, count, items) ==
    LET Field(value) ==
            IF value.st # "ok" THEN value
            ELSE decodeFields(desc, value.t, mem, value.d, count - 1,
                              Append(items, value.obj))
    IN  IF count <= 0 THEN Decoded(PyTuple(items), t, d)
        ELSE Field(doBuildArgs(desc, t, mem, d))

\* the loop of case ARRAY: every element starts at savedType; t is the
\* descriptor cursor as the previous iteration (or the code read) left it
decodeElements(desc, savedType, t, mem, d, count, items) ==
    LET Element(value) ==
            IF value.st # "ok" THEN value
            ELSE decodeElements(desc, savedType, value.t, mem, value.d, count - 1,
                                Append(items, value.obj))
    IN  IF count <= 0 THEN Decoded(PyList(items), t, d)
        ELSE Element(doBuildArgs(desc, savedType, mem, d))

\* the loop of case MAP: the key starts at savedType, the value where the key ended
decodeEntries(desc, savedType, t, mem, d, count, items) ==
    LET Entry(key, value) ==
            IF value.st # "ok" THEN value
            ELSE IF ~Hashable(key.obj) THEN Stopped("fatal", value.t, value.d)
            ELSE decodeEntries(desc, savedType, value.t, mem, value.d, count - 1,
                               DictSetItem(items, key.obj, value.obj))
        Key(key) ==
            IF key.st # "ok" THEN key
            ELSE Entry(key, doBuildArgs(desc, key.t, mem, key.d))
    IN  IF count <= 0 THEN Decoded(PyDict(items), t, d)
        ELSE Key(doBuildArgs(desc, savedType, mem, d))

doBuildArgs(desc, t, mem, d) ==
    LET Skipped(s) ==
            IF s.st = "ok" THEN Decoded(Py_None, s.t, d + 1) ELSE Stopped(s.st, s.t, d + 1)
        \* after the loop of case ARRAY: skipType when the count is 0
        Elements(count, list, s) ==
            IF list.st # "ok" \/ count # 0 THEN list
            ELSE IF s.st # "ok" THEN Stopped(s.st, s.t, list.d)
            ELSE Decoded(list.obj, s.t, list.d)
        Counted(count) ==
            IF count < 0 THEN Stopped("fatal", t + 4, d + 5)
            ELSE Elements(count,
                          decodeElements(desc, t + 4, t + 4, mem, d + 5, count, <<>>),
                          skipType(desc, t + 4))
        Value(v) ==
            IF v.st = "ok" THEN Decoded(v.obj, t + 4, v.d) ELSE Stopped(v.st, t + 4, v.d)
        Present(trinoType) ==
            CASE trinoType = ROW ->
                   IF ~InType(desc, t + 4) THEN Stopped("oob", t + 4, d + 1)
                   ELSE IF TypeWord(desc, t + 4) < 0 THEN Stopped("fatal", t + 8, d + 1)
                   ELSE decodeFields(desc, t + 8, mem, d + 1, TypeWord(desc, t + 4), <<>>)
              [] trinoType = ARRAY ->
                   IF ~Avail(mem, d + 1, 4) THEN Stopped("oob", t + 4, d + 1)
                   ELSE Counted(readI32(mem, d + 1))
              [] trinoType = MAP ->
                   IF ~Avail(mem, d + 1, 4) THEN Stopped("oob", t + 4, d + 1)
                   ELSE decodeEntries(desc, t + 4, t + 4, mem, d + 5, readI32(mem, d + 1), <<>>)
              [] trinoType \in ScalarCodes -> Value(decodeScalar(trinoType, mem, d + 1))
              [] OTHER -> Stopped("fatal", t + 4, d + 1)
    IN  IF ~Avail(mem, d, 1) THEN Stopped("oob", t, d)
        ELSE IF readI8(mem, d) = 0 THEN Skipped(skipType(desc, t))
        ELSE IF ~InType(desc, t) THEN Stopped("oob", t, d + 1)
        ELSE Present(TypeWord(desc, t))

\* a walk that goes on where the walk of the row before ended
buildArgsResumed(mem) == doBuildArgs(trinoArgType, 4 * Len(trinoArgType), mem, 0)

\* buildArgs(data): the walk starts at trinoArgType
buildArgs(mem) == doBuildArgs(trinoArgType, 0, mem, 0)

(***************************************************************************)
(* The output buffer: data holds the bytes written so far (the reserved    *)
(* 4-byte prefix included), size is the capacity, used the fill level and  *)
(* reallocs counts the calls of xrealloc that grew it.                     *)
(***************************************************************************)
\* the greatest i32
INT32_MAX == 2147483647

\* whether size * 2 leaves the i32: the product is undefined then
Overflows(size) == size > INT32_MAX \div 2 \/ size < -(INT32_MAX \div 2) - 1

\* buffer->size *= 2: the value the i32 field holds afterwards; of a product
\* that leaves the i32 it is the low 32 bits
Twice(size) ==
    IF ~Overflows(size) THEN size * 2
    ELSE IF size > 0 THEN ((size - INT32_MAX \div 2 - 1) * 2 - INT32_MAX) - 1
    ELSE ((size + INT32_MAX \div 2 + 1) * 2 + INT32_MAX) + 1

\* while (buffer->size < required), after size was doubled: whether the loop
\* goes on.  Of a product that left the i32 the test sees the stored low 32
\* bits (ub = "wrap") or the product itself (ub = "wide"), which is above
\* every i32 when size was positive and below every i32 when it was not.
GoesOn(size, required) ==
    IF Overflows(size) /\ ub = "wide" THEN size < 0 ELSE Twice(size) < required

RECURSIVE Doubled(_, _)
\* do size *= 2 while (size < required): the size the loop ends with.  A
\* size of 0 stays 0: the loop does not end, and 0 stands for the size it
\* spins on.
Doubled(size, required) ==
    IF ~GoesOn(size, required) THEN Twice(size)
    ELSE IF Twice(size) = 0 THEN 0
    ELSE Doubled(Twice(size), required)

bufferReserve(buffer, required) ==
    IF buffer.size < required
    THEN [buffer EXCEPT !.size = Doubled(buffer.size, required), !.reallocs = @ + 1]
    ELSE buffer

bufferAppend(buffer, bytes) ==
    LET b == bufferReserve(buffer, buffer.used + Len(bytes))
    IN  [b EXCEPT !.data = Take(@, b.used) \o bytes, !.used = @ + Len(bytes)]

bufferAppendI8(buffer, value) == bufferAppend(buffer, IntToBytes(value, 1))

bufferAppendI16(buffer, value) == bufferAppend(buffer, IntToBytes(value, 2))

bufferAppendI32(buffer, value) == bufferAppend(buffer, IntToBytes(value, 4))

\* value is an i64 (a Big)
bufferAppendI64(buffer, value) == bufferAppend(buffer, BigToBytes(value, 8))

(***************************************************************************)
(* Calls of the import return_error (trinoReturnError), in order.          *)
(***************************************************************************)
ReturnError(errorCode, message, tracebackSize) ==
    [errorCode |-> errorCode, message |-> message, tracebackSize |-> tracebackSize,
     traceback |-> <<>>]

\* trinoReturnError(errorCode, message, messageSize, traceback, tracebackSize)
\* with a traceback that is not NULL
trinoReturnError(errorCode, message, traceback) ==
    [ReturnError(errorCode, message, Len(traceback)) EXCEPT !.traceback = traceback]

\* resultError(resultValue, trinoType)
resultError(trinoType) ==
    ReturnError(FUNCTION_IMPLEMENTATION_ERROR,
                "Failed to convert Python result type to Trino type " \o trinoType, 0)

\* overflowError(message)
overflowError(message) == ReturnError(NUMERIC_VALUE_OUT_OF_RANGE, message, 0)

\* memoryError()
memoryError == ReturnError(EXCEEDED_FUNCTION_MEMORY_LIMIT,
                           "Python MemoryError (no traceback available)", 0)

(***************************************************************************)
(* What the C API yields for a runtime object.                             *)
(***************************************************************************)
\* checkType(obj, expected): PyObject_TypeCheck; a datetime is a date as well
checkType(obj, expected) ==
    obj.k = expected \/ (expected = "date" /\ obj.k = "datetime")

\* PyLong_AsLongAndOverflow / PyLong_AsLongLongAndOverflow on bits = 32 / 64:
\* err when the object is no integer, else overflow or the value
PyLong_AsAndOverflow(obj, bits) ==
    LET v == IF obj.k = "bool" THEN BigFromInt(IF obj.truth THEN 1 ELSE 0) ELSE obj.v
    IN  IF obj.k \notin {"int", "bool"}
        THEN [err |-> TRUE, overflow |-> FALSE, value |-> BigFromInt(-1)]
        ELSE IF ~BigFitsSigned(v, bits)
        THEN [err |-> FALSE, overflow |-> TRUE, value |-> BigFromInt(-1)]
        ELSE [err |-> FALSE, overflow |-> FALSE, value |-> v]

\* the width of long in the wasm32 build, and of long long
LLONG_BITS == 64

LONG_BITS == 32

\* PyObject_IsTrue
PyObject_IsTrue(obj) ==
    CASE obj.k = "None" -> FALSE
      [] obj.k = "bool" -> obj.truth
      [] obj.k = "int" -> obj.v # BigZero
      [] obj.k = "float" -> Trim(Take(obj.bits, 7) \o <<obj.bits[8] % 128>>) # <<>>
      [] obj.k = "str" -> obj.utf8 # <<>>
      [] obj.k = "bytes" -> obj.b # <<>>
      [] obj.k \in {"tuple", "list", "dict"} -> obj.items # <<>>
      [] obj.k = "Decimal" -> obj.special # "" \/ obj.digits # <<48>>
      [] obj.k = "timedelta" ->
           obj.days # 0 \/ obj.seconds # 0 \/ obj.microseconds # 0
      [] OTHER -> TRUE

\* the double of an integer: round to nearest, ties to even; ok = FALSE when
\* the integer is too large for a double (OverflowError)
BigToF64(v) ==
    LET sign == IF v.neg THEN 1 ELSE 0
        n    == Len(v.mag)
        \* exponent e and fraction of the rounded significand
        Bits(e, frac) ==
            IF e > 1023 THEN [ok |-> FALSE, bits |-> Zeros(8)]
            ELSE [ok |-> TRUE, bits |-> F64Bits(sign, 1023 + e, frac)]
        \* r is the rounded significand of 53 bits, or 2^53
        Rounded(p, r, carry) ==
            Bits(IF carry THEN p + 1 ELSE p,
                 IF carry THEN <<>> ELSE Trim(Take(r, 6) \o <<r[7] % 16>>))
        Carried(p, r) == Rounded(p, r, Len(r) = 7 /\ r[7] = 32)
        \* s holds 54 bits and the sticky bit, q the upper 53 of them
        Halved(p, s, q) ==
            Carried(p, IF Digit(s.q, 1) % 2 = 1 /\ (s.sticky \/ Digit(q, 1) % 2 = 1)
                       THEN MagAdd(q, <<1>>) ELSE q)
        Shifted(p, s) == Halved(p, s, MagDivSmall(s.q, 2).q)
        \* p is the position of the highest one bit
        Sized(p) ==
            IF p <= 52
            THEN [ok |-> TRUE,
                  bits |-> F64Bits(sign, 1023 + p,
                                   MagSub(MagShl(v.mag, 52 - p), <<0, 0, 0, 0, 0, 0, 16>>))]
            ELSE IF p > 1023 THEN [ok |-> FALSE, bits |-> Zeros(8)]
            ELSE Shifted(p, MagShr(v.mag, p - 53))
    IN  IF v.mag = <<>> THEN [ok |-> TRUE, bits |-> Zeros(8)]
        ELSE Sized((n - 1) * 8 + Log2(v.mag[n]))

\* PyFloat_AsDouble: a float, or an integer through __index__.  (A Decimal
\* converts through __float__, a decimal-to-binary conversion outside this
\* model: no Decimal is offered as a REAL or DOUBLE result.)
PyFloat_AsDouble(obj) ==
    CASE obj.k = "float" -> [ok |-> TRUE, bits |-> obj.bits]
      [] obj.k = "int" -> BigToF64(obj.v)
      [] obj.k = "bool" -> BigToF64(BigFromInt(IF obj.truth THEN 1 ELSE 0))
      [] OTHER -> [ok |-> FALSE, bits |-> Zeros(8)]

\* trino._decimal_to_string(value): the text of a finite Decimal without an
\* exponent; it raises for any other object
decimal_to_string(obj) ==
    IF obj.k = "Decimal" /\ obj.special = "" THEN Made(PyUnicode(DecimalPlainText(obj)))
    ELSE Null

\* input.utcoffset() of a time or datetime: None when it has no tzinfo
utcoffset(obj) == IF obj.tz = <<>> THEN Py_None ELSE obj.tz[1]

\* ipaddress.IPv4Address.ipv6_mapped: ::ffff:a.b.c.d
ipv6_mapped(obj) == PyIPv6(Zeros(10) \o <<255, 255>> \o obj.b)

(***************************************************************************)
(* buildResult.  A call yields whether it returned true, where it left the *)
(* descriptor cursor, the buffer, the calls of return_error it made, and   *)
(* st = "fatal" when it aborted instead of returning.                      *)
(***************************************************************************)
Encoded(t, buffer) ==
    [ok |-> TRUE, t |-> t, buffer |-> buffer, errors |-> <<>>, st |-> "ok"]

Failed(t, buffer, error) ==
    [ok |-> FALSE, t |-> t, buffer |-> buffer, errors |-> <<error>>, st |-> "ok"]

Aborted(st, t, buffer) ==
    [ok |-> FALSE, t |-> t, buffer |-> buffer, errors |-> <<>>, st |-> st]

\* appendBytesAttr(input, buffer, attr, trinoType): UUID.bytes, IPv6Address.packed
appendBytesAttr(input, t, buffer, trinoType) ==
    IF input.k \in {"UUID", "IPv6Address"}
    THEN Encoded(t, bufferAppend(buffer, input.b))
    ELSE Failed(t, buffer, resultError(trinoType))

\* cases BIGINT, INTEGER, SMALLINT, TINYINT, INTERVAL_YEAR_TO_MONTH after the
\* conversion r: the error, then the range check, then width bytes
encodeInteger(r, outOfRange, t, buffer, width, trinoType) ==
    IF r.err THEN Failed(t, buffer, resultError(trinoType))
    ELSE IF outOfRange
    THEN Failed(t, buffer, overflowError("Value out of range for " \o trinoType))
    ELSE Encoded(t, bufferAppend(buffer, BigToBytes(r.value, width)))

INT8_MIN == -128

INT8_MAX == 127

INT16_MIN == -32768

INT16_MAX == 32767

\* hour * (60 * 60 * MICROSECONDS) + minute * (60 * MICROSECONDS)
\*   + second * MICROSECONDS + microsecond
timeOfDayMicros(input) ==
    BigAdd(BigMulSmall(BigFromInt((input.H * 60 + input.M) * 60 + input.S), MICROSECONDS),
           BigFromInt(input.us))

\* the struct tm built from a date or datetime
tmOf(input, withTime) ==
    [tm_year |-> input.y - 1900, tm_mon |-> input.m - 1, tm_mday |-> input.d,
     tm_hour |-> IF withTime THEN input.H ELSE 0,
     tm_min  |-> IF withTime THEN input.M ELSE 0,
     tm_sec  |-> IF withTime THEN input.S ELSE 0]

\* timegm(&t) * MICROSECONDS + microsecond
timestampMicros(input) ==
    BigAdd(BigMulSmall(timegm(tmOf(input, TRUE)), MICROSECONDS), BigFromInt(input.us))

\* (i16)(days * 24 * 60 + seconds / 60) of a utcoffset
offsetMinutes(delta) ==
    IntFromBytes(IntToBytes(delta.days * 24 * 60 + delta.seconds \div 60, 2))

encodeScalar(trinoType, input, t, buffer) ==
    CASE trinoType = T_BOOLEAN ->
           Encoded(t, bufferAppendI8(buffer, IF PyObject_IsTrue(input) THEN 1 ELSE 0))
      [] trinoType = BIGINT ->
           LET r == PyLong_AsAndOverflow(input, LLONG_BITS)
           IN  encodeInteger(r, r.overflow, t, buffer, 8, "BIGINT")
      [] trinoType = INTEGER ->
           LET r == PyLong_AsAndOverflow(input, LONG_BITS)
           IN  encodeInteger(r, r.overflow, t, buffer, 4, "INTEGER")
      [] trinoType = SMALLINT ->
           LET r     == PyLong_AsAndOverflow(input, LONG_BITS)
               value == BigToInt(r.value)
           IN  encodeInteger(r, r.overflow \/ value < INT16_MIN \/ value > INT16_MAX,
                             t, buffer, 2, "SMALLINT")
      [] trinoType = TINYINT ->
           LET r     == PyLong_AsAndOverflow(input, LONG_BITS)
               value == BigToInt(r.value)
           IN  encodeInteger(r, r.overflow \/ value < INT8_MIN \/ value > INT8_MAX,
                             t, buffer, 1, "TINYINT")
      [] trinoType = DOUBLE ->
           LET value == PyFloat_AsDouble(input)
           IN  IF ~value.ok THEN Failed(t, buffer, resultError("DOUBLE"))
               ELSE Encoded(t, bufferAppend(buffer, value.bits))
      [] trinoType = REAL ->
           LET value == PyFloat_AsDouble(input)
           IN  IF ~value.ok THEN Failed(t, buffer, resultError("REAL"))
               ELSE Encoded(t, bufferAppend(buffer, F64ToF32(value.bits)))
      [] trinoType = DECIMAL ->
           LET string == decimal_to_string(input)
           IN  IF ~string.ok THEN Failed(t, buffer, resultError("DECIMAL"))
               ELSE Encoded(t, bufferAppend(bufferAppendI32(buffer, Len(string.obj.utf8)),
                                            string.obj.utf8))
      [] trinoType \in {VARCHAR, JSON} ->
           LET typeName == IF trinoType = VARCHAR THEN "VARCHAR" ELSE "JSON"
           IN  IF ~checkType(input, "str") THEN Failed(t, buffer, resultError(typeName))
               ELSE Encoded(t, bufferAppend(bufferAppendI32(buffer, Len(input.utf8)),
                                            input.utf8))
      [] trinoType = VARBINARY ->
           IF ~checkType(input, "bytes") THEN Failed(t, buffer, resultError("VARBINARY"))
           ELSE Encoded(t, bufferAppend(bufferAppendI32(buffer, Len(input.b)), input.b))
      [] trinoType = DATE ->
           IF ~checkType(input, "date") THEN Failed(t, buffer, resultError("DATE"))
           ELSE Encoded(t, bufferAppend(buffer,
                    Take(BigToBytes(BigDivTrunc(timegm(tmOf(input, FALSE)), 24 * 60 * 60), 8), 4)))
      [] trinoType = TIME ->
           IF ~checkType(input, "time") THEN Failed(t, buffer, resultError("TIME"))
           ELSE Encoded(t, bufferAppendI64(buffer, timeOfDayMicros(input)))
      [] trinoType = TIME_WITH_TIME_ZONE ->
           IF ~checkType(input, "time")
           THEN Failed(t, buffer, resultError("TIME WITH TIME ZONE"))
           ELSE LET b     == bufferAppendI64(buffer, timeOfDayMicros(input))
                    delta == utcoffset(input)
                IN  IF delta = Py_None
                    THEN Failed(t, b, resultError("TIME WITH TIME ZONE"))
                    ELSE Encoded(t, bufferAppendI16(b, offsetMinutes(delta)))
      [] trinoType = TIMESTAMP ->
           IF ~checkType(input, "datetime") THEN Failed(t, buffer, resultError("TIMESTAMP"))
           ELSE Encoded(t, bufferAppendI64(buffer, timestampMicros(input)))
      [] trinoType = TIMESTAMP_WITH_TIME_ZONE ->
           IF ~checkType(input, "datetime")
           THEN Failed(t, buffer, resultError("TIMESTAMP WITH TIME ZONE"))
           ELSE LET delta  == utcoffset(input)
                    offset == offsetMinutes(delta)
                    micros == BigSub(timestampMicros(input),
                                     BigMulSmall(BigFromInt(offset * 60), MICROSECONDS))
                IN  IF delta = Py_None
                    THEN Failed(t, buffer, resultError("TIMESTAMP WITH TIME ZONE"))
                    ELSE Encoded(t, bufferAppendI16(bufferAppendI64(buffer, micros), offset))
      [] trinoType = INTERVAL_YEAR_TO_MONTH ->
           LET r == PyLong_AsAndOverflow(input, LONG_BITS)
           IN  encodeInteger(r, r.overflow, t, buffer, 4, "INTERVAL YEAR TO MONTH")
      [] trinoType = INTERVAL_DAY_TO_SECOND ->
           IF ~checkType(input, "timedelta")
           THEN Failed(t, buffer, resultError("INTERVAL DAY TO SECOND"))
           ELSE Encoded(t, bufferAppendI64(buffer, IntResult(
                    BigAdd(BigMulSmall(BigMulSmall(BigFromInt(input.days), 24 * 60 * 60), 1000),
                           BigFromInt(input.seconds * 1000
                                      + (input.microseconds + 500) \div 1000)))))
      [] trinoType = UUID ->
           IF ~checkType(input, "UUID") THEN Failed(t, buffer, resultError("UUID"))
           ELSE appendBytesAttr(input, t, buffer, "UUID")
      [] trinoType = IPADDRESS ->
           LET address == IF input.k = "IPv4Address" THEN ipv6_mapped(input) ELSE input
           IN  IF address.k # "IPv6Address" THEN Failed(t, buffer, resultError("IPADDRESS"))
               ELSE appendBytesAttr(address, t, buffer, "IPADDRESS")

RECURSIVE buildResult(_, _, _, _)
RECURSIVE encodeFields(_, _, _, _, _)
RECURSIVE encodeElements(_, _, _, _, _, _)
RECURSIVE encodeEntries(_, _, _, _, _, _)

\* the loop of case ROW over the fields i.. of the tuple
encodeFields(desc, t, items, i, buffer) ==
    IF i > Len(items) THEN Encoded(t, buffer)
    ELSE LET field == buildResult(desc, t, items[i], buffer)
         IN  IF ~field.ok THEN field
             ELSE encodeFields(desc, field.t, items, i + 1, field.buffer)

\* the loop of case ARRAY: every element starts at savedType; t is the
\* descriptor cursor as the previous iteration (or the code read) left it
encodeElements(desc, savedType, t, items, i, buffer) ==
    IF i > Len(items) THEN Encoded(t, buffer)
    ELSE LET element == buildResult(desc, savedType, items[i], buffer)
         IN  IF ~element.ok THEN element
             ELSE encodeElements(desc, savedType, element.t, items, i + 1, element.buffer)

\* the loop of case MAP: the key starts at savedType, the value where the key ended
encodeEntries(desc, savedType, t, items, i, buffer) ==
    IF i > Len(items) THEN Encoded(t, buffer)
    ELSE LET key   == buildResult(desc, savedType, items[i][1], buffer)
             value == buildResult(desc, key.t, items[i][2], key.buffer)
         IN  IF ~key.ok THEN key
             ELSE IF ~value.ok THEN value
             ELSE encodeEntries(desc, savedType, value.t, items, i + 1, value.buffer)

buildResult(desc, t, input, buffer) ==
    LET present == input # Py_None
        b       == bufferAppendI8(buffer, IF present THEN 1 ELSE 0)
    IN  IF ~present
        THEN LET s == skipType(desc, t)
             IN  IF s.st = "ok" THEN Encoded(s.t, b) ELSE Aborted(s.st, s.t, b)
        ELSE IF ~InType(desc, t) THEN Aborted("oob", t, b)
        ELSE LET trinoType == TypeWord(desc, t)
             IN  CASE trinoType = ROW ->
                        IF ~checkType(input, "tuple") THEN Failed(t + 4, b, resultError("ROW"))
                        ELSE IF ~InType(desc, t + 4) THEN Aborted("oob", t + 4, b)
                        ELSE IF Len(input.items) # TypeWord(desc, t + 4)
                        THEN Failed(t + 8, b, resultError("ROW"))
                        ELSE encodeFields(desc, t + 8, input.items, 1, b)
                   [] trinoType = ARRAY ->
                        IF ~checkType(input, "list") THEN Failed(t + 4, b, resultError("ARRAY"))
                        ELSE encodeElements(desc, t + 4, t + 4, input.items, 1,
                                            bufferAppendI32(b, Len(input.items)))
                   [] trinoType = MAP ->
                        IF ~checkType(input, "dict") THEN Failed(t + 4, b, resultError("MAP"))
                        ELSE encodeEntries(desc, t + 4, t + 4, input.items, 1,
                                           bufferAppendI32(b, Len(input.items)))
                   [] trinoType \in ScalarCodes -> encodeScalar(trinoType, input, t + 4, b)
                   [] OTHER -> Aborted("fatal", t + 4, b)

(***************************************************************************)
(* Exceptions of the user function and trino._trino_error_result.  An      *)
(* exception is a record: k its class, errorCode / message what a          *)
(* TrinoError carries, traceback its formatted traceback, helper what the  *)
(* helper does with it: "triple", or the class of the exception it raises. *)
(***************************************************************************)
PyException(k, errorCode, message, traceback, helper) ==
    [k |-> k, errorCode |-> errorCode, message |-> message,
     traceback |-> traceback, helper |-> helper]

\* _trino_error_result(exception): the triple (code, message, traceback) --
\* the code of a TrinoError, FUNCTION_IMPLEMENTATION_ERROR for any other
\* exception -- or, when the helper itself raises, the class it raises
trino_error_result(exception) ==
    IF exception.helper # "triple" THEN [ok |-> FALSE, raised |-> exception.helper]
    ELSE [ok |-> TRUE, raised |-> "",
          errorCode |-> IF exception.k = "TrinoError" THEN exception.errorCode
                        ELSE FUNCTION_IMPLEMENTATION_ERROR,
          message |-> exception.message, traceback |-> exception.traceback]

\* handleTrinoError(exception): the calls of return_error, or the abort
handleTrinoError(exception) ==
    LET error == trino_error_result(exception)
    IN  IF ~error.ok
        THEN IF error.raised = "MemoryError"
             THEN [errors |-> <<memoryError>>, st |-> "ok"]
             ELSE [errors |-> <<>>, st |-> "fatal"]
        ELSE [errors |-> <<trinoReturnError(error.errorCode, error.message,
                                            error.traceback)>>,
              st |-> "ok"]

(***************************************************************************)
(* Inputs.  The engine's payload of a value of a type tree: a presence     *)
(* byte, then the body of the type.  Arrays and maps hold up to MaxCount   *)
(* elements.                                                               *)
(***************************************************************************)
MaxCount == 2

MaxInner == 1

\* "a"
TextA == <<97>>

\* one well-formed body per scalar code
WireSample(code) ==
    CASE code = T_BOOLEAN -> <<1>>
      [] code = BIGINT -> IntToBytes(42, 8)
      [] code = INTEGER -> IntToBytes(200, 4)
      [] code = SMALLINT -> IntToBytes(-300, 2)
      [] code = TINYINT -> IntToBytes(-7, 1)
      [] code = DOUBLE -> <<0, 0, 0, 0, 0, 0, 248, 63>>         \* 1.5
      [] code = REAL -> <<0, 0, 192, 63>>                       \* 1.5
      [] code = DECIMAL -> IntToBytes(4, 4) \o <<45, 49, 46, 53>>    \* "-1.5"
      [] code \in {VARCHAR, JSON} -> IntToBytes(1, 4) \o TextA
      [] code = VARBINARY -> IntToBytes(2, 4) \o <<0, 255>>
      [] code = DATE -> IntToBytes(19737, 4)                    \* 2024-01-15
      [] code = TIME -> IntToBytes(37800000, 4) \o IntToBytes(8, 4)
      [] code = TIME_WITH_TIME_ZONE ->
           IntToBytes(37800000, 4) \o IntToBytes(8, 4) \o IntToBytes(330, 2)
      [] code = TIMESTAMP -> IntToBytes(1000123, 8)
      [] code = TIMESTAMP_WITH_TIME_ZONE -> IntToBytes(1000123, 8) \o IntToBytes(-60, 2)
      [] code = INTERVAL_YEAR_TO_MONTH -> IntToBytes(-14, 4)
      [] code = INTERVAL_DAY_TO_SECOND -> IntToBytes(90061001, 8)
      [] code = UUID -> [i \in 1..16 |-> i]
      [] code = IPADDRESS -> Zeros(10) \o <<255, 255, 10, 0, 0, 1>>

RECURSIVE PayloadsWithin(_, _)
RECURSIVE PayloadsAll(_, _)
RECURSIVE Concats(_, _)

\* the concatenations of n members of S
Concats(S, n) ==
    IF n = 0 THEN {<<>>} ELSE {p \o rest : p \in S, rest \in Concats(S, n - 1)}

\* the concatenated payloads of the fields of a ROW
PayloadsAll(kids, max) ==
    IF kids = <<>> THEN {<<>>}
    ELSE {p \o rest : p \in PayloadsWithin(kids[1], max), rest \in PayloadsAll(Tail(kids), max)}

\* the payloads of a tree whose outermost containers hold up to max elements
\* and whose inner containers up to MaxInner
PayloadsWithin(tree, max) ==
    {<<0>>} \cup
    {<<1>> \o body : body \in
        CASE tree.code = ROW -> PayloadsAll(tree.kids, max)
          [] tree.code = ARRAY ->
               UNION {{IntToBytes(n, 4) \o e :
                         e \in Concats(PayloadsWithin(tree.kids[1], MaxInner), n)} :
                      n \in 0..max}
          [] tree.code = MAP ->
               \* a key of a map of the engine is never null
               LET entries == {key \o value :
                                 key \in PayloadsWithin(tree.kids[1], MaxInner) \ {<<0>>},
                                 value \in PayloadsWithin(tree.kids[2], MaxInner)}
               IN  UNION {{IntToBytes(n, 4) \o e : e \in Concats(entries, n)} :
                          n \in 0..max}
          [] OTHER -> {WireSample(tree.code)}}

Payloads(tree) == PayloadsWithin(tree, MaxCount)

(***************************************************************************)
(* The objects a user function returns for a type tree: None, or an object *)
(* of the class the encoder expects.                                       *)
(***************************************************************************)
\* the tzinfo of a fixed offset of whole minutes
Offset(minutes) == <<PyDelta_FromDSU(0, minutes * 60, 0).obj>>

ObjectSample(code) ==
    CASE code = T_BOOLEAN -> PyBool(TRUE)
      [] code = BIGINT -> PyLong(BigFromInt(43))
      [] code = INTEGER -> PyLong(BigFromInt(6))
      [] code = SMALLINT -> PyLong(BigFromInt(-300))
      [] code = TINYINT -> PyLong(BigFromInt(-7))
      [] code = DOUBLE -> PyFloat(<<0, 0, 0, 0, 0, 0, 248, 63>>)
      [] code = REAL -> PyFloat(<<0, 0, 0, 0, 0, 0, 248, 63>>)
      [] code = DECIMAL -> PyDecimal(TRUE, <<49, 53>>, -1)
      [] code \in {VARCHAR, JSON} -> PyUnicode(TextA)
      [] code = VARBINARY -> PyBytes(<<0, 255>>)
      [] code = DATE -> PyDate(2024, 1, 15)
      [] code = TIME -> PyTime(10, 30, 0, 123, <<>>)
      [] code = TIME_WITH_TIME_ZONE -> PyTime(10, 30, 0, 123, Offset(330))
      [] code = TIMESTAMP -> PyDateTime(2024, 1, 15, 10, 30, 0, 123, <<>>)
      [] code = TIMESTAMP_WITH_TIME_ZONE ->
           PyDateTime(2024, 1, 15, 10, 30, 0, 123, Offset(330))
      [] code = INTERVAL_YEAR_TO_MONTH -> PyLong(BigFromInt(-14))
      [] code = INTERVAL_DAY_TO_SECOND -> PyDelta(1, 3661, 1000)
      [] code = UUID -> PyUUID([i \in 1..16 |-> i])
      [] code = IPADDRESS -> PyIPv4(<<10, 0, 0, 1>>)

RECURSIVE ObjectsWithin(_, _)
RECURSIVE ObjectsAll(_, _)
RECURSIVE Lists(_, _)

\* the sequences of n members of S
Lists(S, n) ==
    IF n = 0 THEN {<<>>} ELSE {<<x>> \o rest : x \in S, rest \in Lists(S, n - 1)}

ObjectsAll(kids, max) ==
    IF kids = <<>> THEN {<<>>}
    ELSE {<<x>> \o rest : x \in ObjectsWithin(kids[1], max), rest \in ObjectsAll(Tail(kids), max)}

\* the entries of the dicts: no key twice, every key hashable
Entries(keys, values, n) ==
    {items \in Lists({<<key, value>> : key \in {x \in keys : Hashable(x)}, value \in values}, n) :
        \A i, j \in 1..n : i # j => items[i][1] # items[j][1]}

ObjectsWithin(tree, max) ==
    {Py_None} \cup
    CASE tree.code = ROW -> {PyTuple(items) : items \in ObjectsAll(tree.kids, max)}
      [] tree.code = ARRAY ->
           UNION {{PyList(items) : items \in Lists(ObjectsWithin(tree.kids[1], MaxInner), n)} :
                  n \in 0..max}
      [] tree.code = MAP ->
           UNION {{PyDict(items) :
                     items \in Entries(ObjectsWithin(tree.kids[1], MaxInner),
                                       ObjectsWithin(tree.kids[2], MaxInner), n)} :
                  n \in 0..max}
      [] OTHER -> {ObjectSample(tree.code)}

Objects(tree) == ObjectsWithin(tree, MaxCount)

(***************************************************************************)
(* The heap of the instance: HeapSlots regions, each free, allocated for   *)
(* the engine ("engine") or an output buffer handed to it ("result").      *)
(* A pointer is the index of its region; 0 is NULL.                        *)
(***************************************************************************)
HeapSlots == 2

FreeRegion == [owner |-> "free", size |-> 0]

FreeSlots(h) == {p \in DOMAIN h : h[p].owner = "free"}

\* the lowest free region
LowestFree(h) == CHOOSE p \in FreeSlots(h) : \A q \in FreeSlots(h) : p <= q

\* xrealloc(NULL, size): the new pointer, or FATAL when realloc returns NULL
xrealloc(h, size, owner) ==
    IF FreeSlots(h) = {} THEN [st |-> "fatal", pointer |-> 0, heap |-> h]
    ELSE [st |-> "ok", pointer |-> LowestFree(h),
          heap |-> [h EXCEPT ![LowestFree(h)] = [owner |-> owner, size |-> size]]]

\* a free that releases nothing
leak(h, pointer) == h

\* free(pointer); free(NULL) does nothing
free(h, pointer) == IF pointer = 0 THEN h ELSE [h EXCEPT ![pointer] = FreeRegion]

(***************************************************************************)
(* The outcome of the user function: an object, or a raised exception.     *)
(***************************************************************************)
Returned(value) ==
    [raised |-> FALSE, value |-> value,
     exception |-> PyException("", 0, "", <<>>, "triple")]

Raised(exception) == [raised |-> TRUE, value |-> Py_None, exception |-> exception]

\* "Traceback"
TracebackText == <<84, 114, 97, 99, 101, 98, 97, 99, 107>>

\* PyObject_CallObject(guestFunction, args): an argument list that is no
\* tuple raises TypeError before the function runs
PyObject_CallObject(args, outcome) ==
    IF args.k # "tuple"
    THEN Raised(PyException("TypeError", 0, "argument list must be a tuple",
                            TracebackText, "triple"))
    ELSE outcome

\* the buffer execute starts with: 1024 bytes, the first 4 reserved
InitialSize == 1024

NewBuffer == [data |-> Zeros(4), size |-> InitialSize, used |-> 4, reallocs |-> 0]

\* a prefix that counts the reserved bytes as well
writeWholeLength(buffer) == IntToBytes(buffer.used, 4) \o Drop(buffer.data, 4)

\* the store of buffer.used - 4 at result: the bytes of the returned region
writeLength(buffer) == IntToBytes(buffer.used - 4, 4) \o Drop(buffer.data, 4)

\* what a call of execute leaves: the returned pointer, the calls of
\* return_error, the heap, the bytes of the returned region, whether the
\* call of the user function raised, what buildResult did, buffer.data as
\* xrealloc returned it (0 when the call did not get there), the pointers
\* it passed to free, and st = "ok" unless the call aborted the instance
Executed(st, ret, errors, h, region, raised, enc) ==
    [op |-> "execute", st |-> st, ret |-> ret, errors |-> errors, heap |-> h,
     region |-> region, raised |-> raised, encoded |-> enc.ok, used |-> enc.buffer.used,
     size |-> enc.buffer.size, reallocs |-> enc.buffer.reallocs, t |-> enc.t,
     buffer |-> 0, freed |-> <<>>]

\* a call that got its buffer at pointer
WithBuffer(executed, pointer) == [executed EXCEPT !.buffer = pointer]

\* a call that passed pointer to free
Freeing(executed, pointer) == [executed EXCEPT !.freed = Append(@, pointer)]

NotEncoded == Aborted("ok", 0, NewBuffer)

execute(mem, outcome, h) ==
    LET \* the result of buildResult in the buffer at alloc.pointer
        Stored(alloc, enc) ==
            WithBuffer(
                IF enc.st # "ok"
                THEN Executed(enc.st, 0, enc.errors, alloc.heap, <<>>, FALSE, enc)
                ELSE IF enc.ok
                THEN Executed("ok", alloc.pointer, enc.errors,
                              [alloc.heap EXCEPT ![alloc.pointer].size = enc.buffer.size],
                              writeLength(enc.buffer), FALSE, enc)
                ELSE Freeing(Executed("ok", 0, enc.errors, free(alloc.heap, alloc.pointer),
                                      <<>>, FALSE, enc),
                             alloc.pointer),
                alloc.pointer)
        Reserved(value, alloc) ==
            IF alloc.st # "ok" THEN Executed(alloc.st, 0, <<>>, h, <<>>, FALSE, NotEncoded)
            ELSE Stored(alloc, buildResult(trinoReturnType, 0, value.value, NewBuffer))
        Thrown(thrown) == Executed(thrown.st, 0, thrown.errors, h, <<>>, TRUE, NotEncoded)
        Invoked(value) ==
            IF value.raised THEN Thrown(handleTrinoError(value.exception))
            ELSE Reserved(value, xrealloc(h, InitialSize, "result"))
        Prepared(args) ==
            IF args.st # "ok" THEN Executed(args.st, 0, <<>>, h, <<>>, FALSE, NotEncoded)
            ELSE Invoked(PyObject_CallObject(args.obj, outcome))
    IN  Prepared(buildArgs(mem))

(***************************************************************************)
(* The engine's side of the host specification: the functions the guest    *)
(* module defines, the signatures it sets up, the payloads it sends and    *)
(* what the user function does with them.                                  *)
(***************************************************************************)
GuestFunctions == {"f"}

FunctionNames == {"f", "g"}

Signature(argType, returnType) == [argType |-> argType, returnType |-> returnType]

\* ARRAY(ROW(INTEGER, MAP(VARCHAR, TINYINT)))
NestedType ==
    ArrayOf(RowOf(<<Scalar(INTEGER), MapOf(Scalar(VARCHAR), Scalar(TINYINT))>>))

TextPair == RowOf(<<Scalar(VARCHAR), Scalar(VARCHAR)>>)

ListAndText == RowOf(<<ArrayOf(Scalar(INTEGER)), Scalar(VARCHAR)>>)

IntegerCodes == {TINYINT, SMALLINT, INTEGER, INTERVAL_YEAR_TO_MONTH, BIGINT}

Signatures ==
    {Signature(RowOf(<<Scalar(BIGINT)>>), Scalar(BIGINT)),
     Signature(RowOf(<<ArrayOf(Scalar(INTEGER))>>), Scalar(INTEGER)),
     Signature(RowOf(<<MapOf(Scalar(VARCHAR), Scalar(BIGINT))>>), Scalar(BIGINT)),
     Signature(RowOf(<<Scalar(INTEGER)>>), Scalar(TINYINT)),
     Signature(RowOf(<<Scalar(INTEGER)>>), Scalar(SMALLINT)),
     Signature(RowOf(<<Scalar(INTEGER)>>), Scalar(INTERVAL_YEAR_TO_MONTH)),
     Signature(RowOf(<<Scalar(INTEGER)>>), Scalar(VARCHAR)),
     Signature(RowOf(<<Scalar(INTEGER)>>), TextPair),
     Signature(RowOf(<<Scalar(INTEGER)>>), NestedType),
     Signature(RowOf(<<Scalar(INTEGER)>>), ListAndText),
     Signature(RowOf(<<Scalar(INTEGER)>>), Scalar(TIME_WITH_TIME_ZONE)),
     Signature(RowOf(<<Scalar(INTEGER)>>), Scalar(TIMESTAMP_WITH_TIME_ZONE)),
     Signature(RowOf(<<Scalar(INTEGER)>>), Scalar(DECIMAL))}

\* 2^n as a Big, n a multiple of 8 less one
PowerOfTwo(n) == MkBig(FALSE, Zeros(n \div 8) \o <<Pow2(n % 8)>>)

\* the integers around the limits of 8, 16, 32 and 64 signed bits
IntSamples ==
    {BigFromInt(n) : n \in {-1, 0, 1, 42, 200}} \cup
    UNION {{PowerOfTwo(b), BigSub(PowerOfTwo(b), BigFromInt(1)),
            BigNeg(PowerOfTwo(b)), BigSub(BigNeg(PowerOfTwo(b)), BigFromInt(1))} :
           b \in {7, 15, 31, 63}}

\* lengths of returned texts around the 1024 bytes of the new buffer
TextSizes == {1, 1015, 1016, 2100}

Text(n) == PyUnicode(Fill(n, 97))

Tiny(n) == PyLong(BigFromInt(n))

Pair(n, entries) == PyTuple(<<Tiny(n), PyDict(entries)>>)

\* results of NestedType: well-typed ones, and ones whose first failing
\* element lies three levels down, with and without later failing elements
NestedReturns ==
    {PyList(<<>>),
     PyList(<<Pair(1, <<>>), Py_None>>),
     PyList(<<Pair(1, <<<<Text(1), Tiny(5)>>>>), Pair(2, <<<<Text(1), Py_None>>>>)>>),
     PyList(<<Pair(1, <<<<Text(1), Tiny(200)>>>>)>>),
     PyList(<<Pair(1, <<<<Text(1), Tiny(5)>>>>), Pair(2, <<<<Text(1), Tiny(200)>>>>)>>),
     PyList(<<Pair(1, <<<<Text(1), Tiny(200)>>, <<Text(2), Tiny(300)>>>>),
              Pair(2, <<<<Text(1), Text(1)>>>>)>>),
     PyList(<<Pair(1, <<<<Tiny(1), Tiny(5)>>>>)>>),
     PyList(<<PyTuple(<<Tiny(1)>>), Pair(2, <<>>)>>),
     PyList(<<Pair(1, <<>>), Text(1)>>)}

\* what the user function may return under a return type
Returns(returnType) ==
    CASE returnType.code \in IntegerCodes ->
           {PyLong(v) : v \in IntSamples} \cup {Py_None, PyBool(TRUE), Text(1)}
      [] returnType.code = VARCHAR -> {Text(n) : n \in TextSizes} \cup {Py_None, Tiny(5)}
      [] returnType = TextPair ->
           {PyTuple(<<Text(1100), x>>) : x \in {Text(1), Text(1100), Tiny(5)}} \cup
           {PyTuple(<<Text(1)>>)}
      [] returnType = NestedType -> NestedReturns
      [] returnType = ListAndText ->
           {PyTuple(<<PyList(items), x>>) :
               items \in {<<>>, <<Tiny(1)>>}, x \in {Text(1), Tiny(5)}}
      [] returnType.code = TIME_WITH_TIME_ZONE ->
           {PyTime(10, 30, 0, 123, tz) : tz \in {<<>>, Offset(330)}} \cup {Text(1)}
      [] returnType.code = TIMESTAMP_WITH_TIME_ZONE ->
           {PyDateTime(2024, 1, 15, 10, 30, 0, 123, tz) : tz \in {<<>>, Offset(330)}}
           \cup {PyDate(2024, 1, 15)}
      [] returnType.code = DECIMAL ->
           {PyDecimal(TRUE, <<49, 53>>, -1), Text(1)}
      [] OTHER -> Objects(returnType)

\* what the user function may raise: a runtime type error, a typed error
\* with a code of its own, and exceptions on which the helper itself raises
Exceptions ==
    {PyException("TypeError", 0, "unsupported operand", TracebackText, "triple"),
     PyException("TrinoError", NUMERIC_VALUE_OUT_OF_RANGE, "too large", TracebackText, "triple"),
     PyException("MemoryError", 0, "", <<>>, "MemoryError"),
     PyException("ValueError", 0, "bad", TracebackText, "RuntimeError")}

Outcomes(returnType) ==
    {Returned(value) : value \in Returns(returnType)} \cup {Raised(e) : e \in Exceptions}

\* sizes of the regions the engine allocates for a payload
AllocSizes == {64}

NoCall == [op |-> "none", st |-> "ok"]

NoInput == [op |-> "none"]

TypeOK ==
    /\ pc \in {"start", "ready", "aborted"}
    /\ ub \in {"wrap", "wide"}
    /\ DOMAIN heap = 1..HeapSlots

Init ==
    /\ pc = "start"
    /\ ub \in {"wrap", "wide"}
    /\ trinoArgType = <<>>
    /\ trinoReturnType = <<>>
    /\ guestFunction = ""
    /\ heap = [p \in 1..HeapSlots |-> FreeRegion]
    /\ drawn = NoInput
    /\ call = NoCall
    /\ rows = {}

\* allocate(size)
Allocate(size) ==
    /\ pc # "aborted"
    /\ LET r == xrealloc(heap, size, "engine")
       IN  /\ heap' = r.heap
           /\ pc' = IF r.st = "ok" THEN pc ELSE "aborted"
           /\ call' = [op |-> "allocate", st |-> r.st, ret |-> r.pointer]
    /\ drawn' = [op |-> "allocate", size |-> size]
    /\ UNCHANGED <<ub, trinoArgType, trinoReturnType, guestFunction, rows>>

\* deallocate(pointer), of a region the engine holds
Deallocate(pointer) ==
    /\ pc # "aborted"
    /\ heap[pointer].owner # "free"
    /\ heap' = free(heap, pointer)
    /\ call' = [op |-> "deallocate", st |-> "ok"]
    /\ drawn' = [op |-> "deallocate", pointer |-> pointer]
    /\ UNCHANGED <<pc, ub, trinoArgType, trinoReturnType, guestFunction, rows>>

\* setup(functionName, argType, returnType): findFunction is FATAL for a
\* name the guest module does not define
Setup(functionName, signature) ==
    /\ pc = "start"
    /\ pc' = IF functionName \in GuestFunctions THEN "ready" ELSE "aborted"
    /\ guestFunction' = IF functionName \in GuestFunctions THEN functionName ELSE ""
    /\ trinoArgType' = IF functionName \in GuestFunctions
                       THEN Descriptor(signature.argType) ELSE trinoArgType
    /\ trinoReturnType' = IF functionName \in GuestFunctions
                          THEN Descriptor(signature.returnType) ELSE trinoReturnType
    /\ call' = [op |-> "setup",
                st |-> IF functionName \in GuestFunctions THEN "ok" ELSE "fatal"]
    /\ drawn' = [op |-> "setup", signature |-> signature]
    /\ UNCHANGED <<ub, heap, rows>>

\* the signature set up
SignatureOf(argType, returnType) ==
    CHOOSE g \in Signatures :
        Descriptor(g.argType) = argType /\ Descriptor(g.returnType) = returnType

\* how a call of execute ended: with a result, or with none (the user
\* function raised, the encoder failed, or the instance was aborted)
Kind(executed) == IF executed.st = "ok" /\ executed.ret # 0 THEN "result" ELSE "none"

\* execute(data): the engine sends one row at a time -- it has written the
\* payload mem to the region data it has just allocated
Execute(data, mem, outcome) ==
    /\ pc = "ready"
    /\ call.op = "allocate" /\ call.ret = data
    /\ heap[data].owner = "engine"
    /\ Len(mem) <= heap[data].size
    /\ call' = execute(mem, outcome, heap)
    /\ heap' = call'.heap
    /\ pc' = IF call'.st = "ok" THEN "ready" ELSE "aborted"
    /\ drawn' = [op |-> "execute", mem |-> mem, outcome |-> outcome]
    /\ rows' = rows \cup {Kind(call')}
    /\ UNCHANGED <<ub, trinoArgType, trinoReturnType, guestFunction>>

Next ==
    \/ \E size \in AllocSizes : Allocate(size)
    \/ \E pointer \in 1..HeapSlots : Deallocate(pointer)
    \/ \E functionName \in FunctionNames, signature \in Signatures :
          Setup(functionName, signature)
    \/ /\ pc = "ready"
       /\ \E data \in 1..HeapSlots :
          \E mem \in Payloads(SignatureOf(trinoArgType, trinoReturnType).argType),
             outcome \in Outcomes(SignatureOf(trinoArgType, trinoReturnType).returnType) :
                Execute(data, mem, outcome)

Spec == Init /\ [][Next]_vars

(***************************************************************************)
(* Properties of execute, checked under Spec.                              *)
(***************************************************************************)
\* what holds of every call of execute that returns: 0 after exactly one
\* call of return_error, or a result pointer after none
ReturningCallsReportOnce ==
    (call.op = "execute" /\ call.st = "ok") =>
        /\ call.ret = 0 <=> (call.raised \/ ~call.encoded)
        /\ call.ret = 0 => Len(call.errors) = 1
        /\ call.ret # 0 => call.errors = <<>> /\ heap[call.ret].owner = "result"

\* C1: every call of execute whose user function raises, or whose result
\* fails to encode, invokes return_error exactly once and returns 0; every
\* other call invokes return_error not at all and returns a non-null pointer.
\* (A call that finds no memory for its output buffer is left aside.)
C1_EveryFailureReportedOnce ==
    call.op = "execute" =>
        /\ ReturningCallsReportOnce
        /\ (call.raised \/ call.encoded \/ call.errors # <<>>) => call.st = "ok"

\* the call C1 fails on: the user function raised, the helper raised an
\* exception that is no MemoryError, and the instance exited without a call
\* of return_error
C1_AbortedFailure ==
    /\ call.op = "execute" /\ call.raised
    /\ call.st = "fatal" /\ call.errors = <<>>
    /\ drawn.outcome.exception.helper = "RuntimeError"

\* a failure three levels down, with later failing elements, reported once
C1_NestedFailure ==
    /\ call.op = "execute" /\ call.st = "ok" /\ call.ret = 0
    /\ trinoReturnType = Descriptor(NestedType)
    /\ drawn.outcome.value =
         PyList(<<Pair(1, <<<<Text(1), Tiny(200)>>, <<Text(2), Tiny(300)>>>>),
                  Pair(2, <<<<Text(1), Text(1)>>>>)>>)
    /\ call.errors = <<overflowError("Value out of range for TINYINT")>>

\* C2: the region a successful execute returns starts with the 4-byte
\* little-endian length N = used - 4 and holds exactly N more bytes, inside
\* the capacity of the buffer, however often the buffer grew.
C2_LengthPrefix ==
    (call.op = "execute" /\ call.st = "ok" /\ call.ret # 0) =>
        /\ IntFromBytes(Take(call.region, 4)) = call.used - 4
        /\ Len(call.region) = 4 + IntFromBytes(Take(call.region, 4))
        /\ call.used <= call.size
        /\ heap[call.ret] = [owner |-> "result", size |-> call.size]

\* a successful call whose buffer grew twice
C2_GrownTwice ==
    /\ call.op = "execute" /\ call.st = "ok" /\ call.ret # 0
    /\ call.reallocs = 2 /\ call.size = 4 * InitialSize
    /\ Len(call.region) = 2215

\* the bits of the integer codes on the wire
WireBits(code) ==
    CASE code = TINYINT -> 8
      [] code = SMALLINT -> 16
      [] code \in {INTEGER, INTERVAL_YEAR_TO_MONTH} -> 32
      [] code = BIGINT -> 64

\* C6: an integer v returned under TINYINT, SMALLINT, INTEGER,
\* INTERVAL_YEAR_TO_MONTH or BIGINT is encoded if and only if it lies in the
\* signed range of 8, 16, 32, 32 or 64 bits, as the presence byte and the
\* little-endian two's complement of v in 1, 2, 4, 4 or 8 bytes; for any other
\* v execute returns 0 after one return_error with NUMERIC_VALUE_OUT_OF_RANGE.
C6_IntegerRange ==
    (/\ call.op = "execute" /\ call.st = "ok" /\ ~call.raised
     /\ trinoReturnType[1] \in IntegerCodes
     /\ drawn.outcome.value.k = "int") =>
        LET v     == drawn.outcome.value.v
            bits  == WireBits(trinoReturnType[1])
            bytes == Drop(call.region, 5)
        IN  IF BigFitsSigned(v, bits)
            THEN /\ call.ret # 0
                 /\ call.region[5] = 1
                 /\ Len(bytes) = bits \div 8
                 /\ BigFromBytes(bytes) = v
            ELSE /\ call.ret = 0
                 /\ Len(call.errors) = 1
                 /\ call.errors[1].errorCode = NUMERIC_VALUE_OUT_OF_RANGE

\* 200 returned under TINYINT
C6_TinyintOverflow ==
    /\ call.op = "execute" /\ call.st = "ok" /\ call.ret = 0
    /\ trinoReturnType = <<TINYINT>>
    /\ drawn.outcome.value = Tiny(200)
    /\ call.errors = <<overflowError("Value out of range for TINYINT")>>

\* a call of execute with a row of arguments whose user function raised
Raising == call.op = "execute" /\ drawn.mem[1] # 0 /\ drawn.outcome.raised

\* what holds of a raising user function when the helper returns its triple
\* or raises MemoryError: the triple is passed on as it is, the MemoryError
\* is reported with the fixed message, and execute returns 0
TripleOrMemoryErrorReported ==
    (/\ Raising
     /\ drawn.outcome.exception.helper \in {"triple", "MemoryError"}) =>
        /\ call.st = "ok" /\ call.ret = 0
        /\ call.errors =
             IF drawn.outcome.exception.helper = "MemoryError" THEN <<memoryError>>
             ELSE <<[errorCode |-> trino_error_result(drawn.outcome.exception).errorCode,
                     message |-> drawn.outcome.exception.message,
                     tracebackSize |-> Len(drawn.outcome.exception.traceback),
                     traceback |-> drawn.outcome.exception.traceback]>>

\* C14: when the user function raises and the helper returns the triple
\* (errorCode, message, traceback), return_error receives exactly these;
\* when the helper itself raises -- whatever it raises -- return_error is
\* called once with EXCEEDED_FUNCTION_MEMORY_LIMIT, the fixed message and an
\* empty traceback, execute returns 0 and the instance goes on.
C14_HelperFailureRecovered ==
    Raising =>
        /\ TripleOrMemoryErrorReported
        /\ drawn.outcome.exception.helper # "triple" =>
             /\ call.st = "ok" /\ pc = "ready" /\ call.ret = 0
             /\ call.errors = <<memoryError>>

\* the call C14 fails on: the helper raises RuntimeError, and the instance
\* exits without a call of return_error
C14_HelperRaisesOther ==
    /\ Raising
    /\ drawn.outcome.exception.helper = "RuntimeError"
    /\ call.st = "fatal" /\ pc = "aborted" /\ call.errors = <<>>

\* a TrinoError of code NUMERIC_VALUE_OUT_OF_RANGE is passed on with its
\* message and traceback
C14_TypedErrorForwarded ==
    /\ Raising /\ call.st = "ok" /\ call.ret = 0
    /\ drawn.outcome.exception.k = "TrinoError"
    /\ call.errors = <<trinoReturnError(NUMERIC_VALUE_OUT_OF_RANGE, "too large",
                                        TracebackText)>>

\* the type tree of the signature set up for the return value
ReturnTree == SignatureOf(trinoArgType, trinoReturnType).returnType

RECURSIVE Fault(_, _)
RECURSIVE FirstFault(_, _, _)

\* the first of the faults of the objects items[i..] under the trees
\* kids[i..], in order
FirstFault(kids, items, i) ==
    IF i > Len(items) THEN "none"
    ELSE IF Fault(kids[i], items[i]) # "none" THEN Fault(kids[i], items[i])
    ELSE FirstFault(kids, items, i + 1)

\* the key and the value of every entry of a dict, in its order
RECURSIVE Flat(_)
Flat(entries) ==
    IF entries = <<>> THEN <<>> ELSE <<entries[1][1], entries[1][2]>> \o Flat(Tail(entries))

\* the first fault an encoder that walks the object in order finds for a
\* type tree: "type" for an object of a class the type does not take (a
\* tuple of another length, a time without an offset, no finite Decimal),
\* "range" for an integer its width does not hold, "none" when there is none
Fault(tree, obj) ==
    IF obj = Py_None THEN "none"
    ELSE CASE tree.code = ROW ->
                IF obj.k # "tuple" \/ Len(obj.items) # Len(tree.kids) THEN "type"
                ELSE FirstFault(tree.kids, obj.items, 1)
           [] tree.code = ARRAY ->
                IF obj.k # "list" THEN "type"
                ELSE FirstFault([i \in 1..Len(obj.items) |-> tree.kids[1]], obj.items, 1)
           [] tree.code = MAP ->
                IF obj.k # "dict" THEN "type"
                ELSE FirstFault([i \in 1..2 * Len(obj.items) |-> tree.kids[2 - (i % 2)]],
                                Flat(obj.items), 1)
           [] tree.code = T_BOOLEAN -> "none"
           [] tree.code \in IntegerCodes ->
                IF obj.k \notin {"int", "bool"} THEN "type"
                ELSE IF obj.k = "int" /\ ~BigFitsSigned(obj.v, WireBits(tree.code))
                THEN "range" ELSE "none"
           [] tree.code \in {REAL, DOUBLE} ->
                IF obj.k \in {"float", "int", "bool"} THEN "none" ELSE "type"
           [] tree.code = DECIMAL ->
                IF obj.k = "Decimal" /\ obj.special = "" THEN "none" ELSE "type"
           [] tree.code \in {VARCHAR, JSON} -> IF obj.k = "str" THEN "none" ELSE "type"
           [] tree.code = VARBINARY -> IF obj.k = "bytes" THEN "none" ELSE "type"
           [] tree.code = DATE -> IF obj.k \in {"date", "datetime"} THEN "none" ELSE "type"
           [] tree.code = TIME -> IF obj.k = "time" THEN "none" ELSE "type"
           [] tree.code = TIME_WITH_TIME_ZONE ->
                IF obj.k = "time" /\ obj.tz # <<>> THEN "none" ELSE "type"
           [] tree.code = TIMESTAMP -> IF obj.k = "datetime" THEN "none" ELSE "type"
           [] tree.code = TIMESTAMP_WITH_TIME_ZONE ->
                IF obj.k = "datetime" /\ obj.tz # <<>> THEN "none" ELSE "type"
           [] tree.code = INTERVAL_DAY_TO_SECOND ->
                IF obj.k = "timedelta" THEN "none" ELSE "type"
           [] tree.code = UUID -> IF obj.k = "UUID" THEN "none" ELSE "type"
           [] tree.code = IPADDRESS ->
                IF obj.k \in {"IPv4Address", "IPv6Address"} THEN "none" ELSE "type"

\* whether the call of execute got as far as encoding the returned object
Encoding == call.op = "execute" /\ ~drawn.outcome.raised /\ call.buffer # 0

\* what a call of execute that reports a failure of the encoder leaves
ReportedAs(errorCode) ==
    /\ call.st = "ok" /\ call.ret = 0 /\ call.region = <<>>
    /\ Len(call.errors) = 1 /\ call.errors[1].errorCode = errorCode
    /\ call.errors[1].tracebackSize = 0
    /\ heap[call.buffer].owner = "free"

RECURSIVE HasEmpty(_)
\* whether an empty list or dict occurs in an object
HasEmpty(obj) ==
    /\ obj.k \in {"tuple", "list", "dict"}
    /\ \/ obj.k # "tuple" /\ obj.items = <<>>
       \/ \E i \in 1..Len(obj.items) :
            IF obj.k = "dict" THEN HasEmpty(obj.items[i][1]) \/ HasEmpty(obj.items[i][2])
            ELSE HasEmpty(obj.items[i])

\* what holds of an object without an empty list or dict: its first fault,
\* when that is one of type, is reported with FUNCTION_IMPLEMENTATION_ERROR
\* and nothing is returned
MismatchReportedWithoutEmpty ==
    (/\ Encoding /\ ~HasEmpty(drawn.outcome.value)
     /\ Fault(ReturnTree, drawn.outcome.value) = "type") =>
        ReportedAs(FUNCTION_IMPLEMENTATION_ERROR)

\* C12: an object whose first fault is one of type -- the wrong class for
\* the declared code, a tuple of another length than the ROW, a time or
\* datetime without a UTC offset, an object decimal_to_string fails on --
\* stops the encoder there: return_error is called once with
\* FUNCTION_IMPLEMENTATION_ERROR, every enclosing level returns failure,
\* execute frees the buffer and returns 0, and no byte written before the
\* failure reaches the engine.
C12_MismatchReported ==
    (Encoding /\ Fault(ReturnTree, drawn.outcome.value) = "type") =>
        ReportedAs(FUNCTION_IMPLEMENTATION_ERROR)

\* the call C12 fails on: ([], 5) under ROW(ARRAY(INTEGER), VARCHAR) -- the
\* empty list leaves the cursor on INTEGER, 5 is written as an INTEGER and
\* execute returns the bytes
C12_MismatchEncoded ==
    /\ Encoding /\ ReturnTree = ListAndText
    /\ drawn.outcome.value = PyTuple(<<PyList(<<>>), Tiny(5)>>)
    /\ call.ret # 0 /\ call.errors = <<>>
    /\ Drop(call.region, 4) = <<1, 1>> \o IntToBytes(0, 4) \o <<1>> \o IntToBytes(5, 4)

\* a time without an offset under TIME_WITH_TIME_ZONE: the presence byte and
\* the microseconds are written, then the failure is reported
C12_NaiveTimeReported ==
    /\ Encoding /\ trinoReturnType = <<TIME_WITH_TIME_ZONE>>
    /\ drawn.outcome.value = PyTime(10, 30, 0, 123, <<>>)
    /\ call.used = 4 + 1 + 8
    /\ ReportedAs(FUNCTION_IMPLEMENTATION_ERROR)

\* what the engine sees of a call of execute, the pointer itself left out
Seen(st, errors, region, returned) ==
    [st |-> st, errors |-> errors, region |-> region, returned |-> returned]

\* what a call shows when both walks start at offset 0 of the descriptors
\* set up: the row is decoded, the user function does what it does, and
\* its result is encoded into a new buffer
FromStart(mem, outcome) ==
    IF doBuildArgs(trinoArgType, 0, mem, 0).st # "ok"
    THEN Seen(doBuildArgs(trinoArgType, 0, mem, 0).st, <<>>, <<>>, FALSE)
    ELSE IF outcome.raised
    THEN Seen(handleTrinoError(outcome.exception).st,
              handleTrinoError(outcome.exception).errors, <<>>, FALSE)
    ELSE IF buildResult(trinoReturnType, 0, outcome.value, NewBuffer).ok
    THEN Seen("ok", <<>>,
              writeLength(buildResult(trinoReturnType, 0, outcome.value, NewBuffer).buffer),
              TRUE)
    ELSE Seen(buildResult(trinoReturnType, 0, outcome.value, NewBuffer).st,
              buildResult(trinoReturnType, 0, outcome.value, NewBuffer).errors, <<>>, FALSE)

CodecTrees ==
    {Scalar(code) : code \in ScalarCodes} \cup
    {RowOf(<<>>),
     RowOf(<<ArrayOf(Scalar(INTEGER)), Scalar(VARCHAR)>>),
     RowOf(<<MapOf(Scalar(VARCHAR), Scalar(BIGINT)), Scalar(INTEGER)>>),
     RowOf(<<RowOf(<<Scalar(TINYINT), ArrayOf(Scalar(T_BOOLEAN))>>), Scalar(SMALLINT)>>),
     ArrayOf(ArrayOf(Scalar(TINYINT))),
     MapOf(Scalar(INTEGER), ArrayOf(Scalar(DOUBLE))),
     ArrayOf(RowOf(<<MapOf(Scalar(DATE), Scalar(UUID))>>))}

\* the length in bytes of the descriptor of a tree
TypeLength(tree) == 4 * Len(Descriptor(tree))

RECURSIVE Subtrees(_, _)
RECURSIVE SubtreesAll(_, _)

SubtreesAll(kids, t) ==
    IF kids = <<>> THEN {}
    ELSE Subtrees(kids[1], t) \cup SubtreesAll(Tail(kids), t + TypeLength(kids[1]))

\* the subtrees of a tree whose descriptor starts at t, each with its position
Subtrees(tree, t) ==
    {[t |-> t, sub |-> tree]} \cup
    SubtreesAll(tree.kids, IF tree.code = ROW THEN t + 8 ELSE t + 4)

CodecInputs ==
    UNION {UNION {
        {[op |-> "decode", tree |-> tree, t |-> s.t, sub |-> s.sub, mem |-> mem] :
            mem \in Payloads(s.sub)} \cup
        {[op |-> "encode", tree |-> tree, t |-> s.t, sub |-> s.sub, value |-> value] :
            value \in Objects(s.sub)} :
        s \in Subtrees(tree, 0)} : tree \in CodecTrees}

\* a MAP whose keys are lists
ListKeyed == MapOf(ArrayOf(Scalar(INTEGER)), Scalar(INTEGER))

\* payloads of the right length whose content is not what the engine
\* writes: all bytes 00 or FF, text that is no UTF-8 or no number
Contents(code) ==
    CASE code \in {VARCHAR, JSON} ->
           {IntToBytes(1, 4) \o <<255>>, IntToBytes(2, 4) \o <<195, 40>>}
      [] code = DECIMAL ->
           {IntToBytes(1, 4) \o <<120>>, IntToBytes(0, 4), IntToBytes(1, 4) \o <<255>>}
      [] code = VARBINARY -> {IntToBytes(1, 4) \o <<255>>, IntToBytes(0, 4)}
      [] OTHER -> {Fill(FixedWidth(code), 255), Zeros(FixedWidth(code)),
                   IntToBytes(-1, FixedWidth(code) - 1) \o <<127>>}

ContentInputs ==
    UNION {{[op |-> "content", tree |-> Scalar(code), t |-> 0, sub |-> Scalar(code),
             mem |-> <<1>> \o bytes] : bytes \in Contents(code)} : code \in ScalarCodes}
    \cup {[op |-> "content", tree |-> ListKeyed, t |-> 0, sub |-> ListKeyed, mem |-> mem] :
             mem \in Payloads(ListKeyed)}

\* the most nodes of a type tree that is skipped
MaxNodes == 5

RECURSIVE TreesOfSize(_)
RECURSIVE ForestsOfSize(_)

\* the sequences of trees of n nodes in all
ForestsOfSize(n) ==
    IF n = 0 THEN {<<>>}
    ELSE UNION {{<<first>> \o rest : first \in TreesOfSize(k), rest \in ForestsOfSize(n - k)} :
                k \in 1..n}

\* the type trees of n nodes over ROW of any number of fields, ARRAY, MAP
\* and one scalar
TreesOfSize(n) ==
    IF n <= 0 THEN {}
    ELSE (IF n = 1 THEN {Scalar(INTEGER)} ELSE {})
         \cup {RowOf(kids) : kids \in ForestsOfSize(n - 1)}
         \cup {ArrayOf(elem) : elem \in TreesOfSize(n - 1)}
         \cup {MapOf(kids[1], kids[2]) : kids \in {f \in ForestsOfSize(n - 1) : Len(f) = 2}}

\* codes outside the closed set
UnknownCodes == {-1, IPADDRESS + 1, 255}

\* trees with an unknown code: on its own, and below each container
UnknownTrees ==
    UNION {{Scalar(code), ArrayOf(Scalar(code)), MapOf(Scalar(INTEGER), Scalar(code)),
            MapOf(Scalar(code), Scalar(INTEGER)),
            RowOf(<<Scalar(VARCHAR), RowOf(<<Scalar(code)>>)>>)} : code \in UnknownCodes}

SkipInputs ==
    {[op |-> "skip", tree |-> tree, t |-> 0, sub |-> tree] :
        tree \in UNION {TreesOfSize(n) : n \in 1..MaxNodes}
                 \cup {Scalar(code) : code \in ScalarCodes} \cup UnknownTrees}

InitCodec ==
    /\ pc = "input"
    /\ ub \in {"wrap", "wide"}
    /\ drawn \in CodecInputs \cup ContentInputs \cup SkipInputs
    /\ trinoArgType = Descriptor(drawn.tree)
    /\ trinoReturnType = Descriptor(drawn.tree)
    /\ guestFunction = "f"
    /\ heap = [p \in 1..HeapSlots |-> FreeRegion]
    /\ call = NoCall
    /\ rows = {}

\* doBuildArgs(&type, &data) with type at the subtree and data at its payload
Decode ==
    /\ pc = "input" /\ drawn.op \in {"decode", "content"}
    /\ call' = doBuildArgs(trinoArgType, drawn.t, drawn.mem, 0)
    /\ pc' = "done"
    /\ UNCHANGED <<ub, trinoArgType, trinoReturnType, guestFunction, heap, drawn, rows>>

\* buildResult(&type, input, &buffer) with type at the subtree
Encode ==
    /\ pc = "input" /\ drawn.op = "encode"
    /\ call' = buildResult(trinoReturnType, drawn.t, drawn.value, NewBuffer)
    /\ pc' = "done"
    /\ UNCHANGED <<ub, trinoArgType, trinoReturnType, guestFunction, heap, drawn, rows>>

\* skipType(&type) with type at the start of the descriptor
Skip ==
    /\ pc = "input" /\ drawn.op = "skip"
    /\ call' = skipType(trinoArgType, drawn.t)
    /\ pc' = "done"
    /\ UNCHANGED <<ub, trinoArgType, trinoReturnType, guestFunction, heap, drawn, rows>>

NextCodec == Decode \/ Encode \/ Skip

SpecCodec == InitCodec /\ [][NextCodec]_vars

(***************************************************************************)
(* Properties of the walks, checked under SpecCodec.                       *)
(***************************************************************************)
RECURSIVE HasMap(_)
\* whether a MAP occurs in a tree
HasMap(tree) ==
    tree.code = MAP \/ \E i \in 1..Len(tree.kids) : HasMap(tree.kids[i])

\* what holds of the decoder where no MAP is declared: both cursors end
\* where the value's type and payload end
DecodeAdvancesWithoutMap ==
    (pc = "done" /\ drawn.op = "decode" /\ ~HasMap(drawn.sub)) =>
        /\ call.st = "ok"
        /\ call.t = drawn.t + TypeLength(drawn.sub)
        /\ call.t = skipType(trinoArgType, drawn.t).t
        /\ call.d = Len(drawn.mem)

RECURSIVE Known(_)
\* whether every code of a tree is one of the 23
Known(tree) ==
    /\ tree.code \in {ROW, ARRAY, MAP} \cup ScalarCodes
    /\ \A i \in 1..Len(tree.kids) : Known(tree.kids[i])

RECURSIVE SubtreeBytes(_)
RECURSIVE SumBytes(_)

SumBytes(kids) ==
    IF kids = <<>> THEN 0 ELSE SubtreeBytes(Head(kids)) + SumBytes(Tail(kids))

\* the bytes of a subtree: 4 for a scalar, 4 and the element for ARRAY, 4,
\* the key and the value for MAP, 8 and the n fields for ROW
SubtreeBytes(tree) ==
    CASE tree.code = ROW -> 8 + SumBytes(tree.kids)
      [] tree.code = ARRAY -> 4 + SubtreeBytes(tree.kids[1])
      [] tree.code = MAP -> 4 + SubtreeBytes(tree.kids[1]) + SubtreeBytes(tree.kids[2])
      [] OTHER -> 4

\* C17: skipType from position 0 of the descriptor of a type tree -- a
\* scalar, a ROW of any number of fields, 0 included, an ARRAY, a MAP, nested
\* in any way -- stops at the length of the descriptor, having taken 4 bytes
\* for a scalar, 4 and one subtree for ARRAY, 4 and two for MAP, 8 and n
\* for a ROW of n fields; a code outside the 23 aborts the instance.  (The
\* walk has the descriptor cursor alone: it reads no data.)
C17_SkipStopsAtEnd ==
    (pc = "done" /\ drawn.op = "skip") =>
        IF Known(drawn.tree)
        THEN /\ call.st = "ok"
             /\ call.t = SubtreeBytes(drawn.tree)
             /\ call.t = 4 * Len(trinoArgType)
        ELSE call.st = "fatal"

\* ROW(MAP(ARRAY(INTEGER), INTEGER)) is skipped in 24 bytes
C17_NestedSkipped ==
    /\ pc = "done" /\ drawn.op = "skip"
    /\ drawn.tree = RowOf(<<MapOf(ArrayOf(Scalar(INTEGER)), Scalar(INTEGER))>>)
    /\ call = Walk(24, "ok")

\* what holds of every payload of a scalar whose content the runtime takes:
\* integers, floats, bytes, UUIDs and addresses are decoded whatever the
\* bytes are
DecodeTotalOnPlainScalars ==
    (/\ pc = "done" /\ drawn.op = "content"
     /\ drawn.sub.code \in {T_BOOLEAN, BIGINT, INTEGER, SMALLINT, TINYINT, DOUBLE, REAL,
                             VARBINARY, INTERVAL_YEAR_TO_MONTH, UUID, IPADDRESS}) =>
        call.st = "ok" /\ call.d = Len(drawn.mem)

\* C13: under a descriptor of known type codes doBuildArgs decodes every
\* payload without aborting the instance, whatever its bytes are: text that
\* is no UTF-8, DECIMAL text that is no number, a negative time or
\* timestamp, a MAP key that decodes to an unhashable object.
C13_DecodeNeverAborts ==
    (pc = "done" /\ drawn.op \in {"decode", "content"}) => call.st # "fatal"

\* the call C13 fails on: the one byte FF as the text of a VARCHAR
C13_InvalidTextAborts ==
    /\ pc = "done" /\ drawn.op = "content" /\ drawn.sub.code = VARCHAR
    /\ drawn.mem = <<1>> \o IntToBytes(1, 4) \o <<255>>
    /\ call.st = "fatal"

\* further calls C13 fails on: DECIMAL text "x", TIME -1, and a list as the
\* key of a MAP
C13_OtherAborts ==
    /\ pc = "done" /\ drawn.op = "content" /\ call.st = "fatal"
    /\ \/ drawn.sub.code = DECIMAL /\ drawn.mem = <<1>> \o IntToBytes(1, 4) \o <<120>>
       \/ drawn.sub.code = TIME /\ drawn.mem = <<1>> \o Fill(8, 255)
       \/ drawn.sub = ListKeyed /\ Len(drawn.mem) > 5

\* C3: after doBuildArgs has decoded one value from a well-formed payload,
\* the descriptor cursor has advanced by the length of the value's type
\* subtree, as skipType advances it, and the data cursor by the length of the
\* payload -- an ARRAY or MAP of count 0 included.
C3_DecodeAdvances ==
    (pc = "done" /\ drawn.op = "decode") =>
        /\ call.st = "ok"
        /\ call.t = drawn.t + TypeLength(drawn.sub)
        /\ call.t = skipType(trinoArgType, drawn.t).t
        /\ call.d = Len(drawn.mem)

\* the engine's payload of ROW(MAP(VARCHAR, BIGINT), INTEGER) holding the
\* empty map and the integer 200
C3_EmptyMapPayload == <<1, 1>> \o IntToBytes(0, 4) \o <<1>> \o IntToBytes(200, 4)

\* the call C3 fails on: after the empty map the descriptor cursor stands on
\* the key type, and the integer that follows is taken for a VARCHAR of 200
\* bytes, which the region does not hold
C3_EmptyMapMisaligned ==
    /\ pc = "done" /\ drawn.op = "decode"
    /\ drawn.sub = RowOf(<<MapOf(Scalar(VARCHAR), Scalar(BIGINT)), Scalar(INTEGER)>>)
    /\ drawn.mem = C3_EmptyMapPayload
    /\ call.st = "oob"

\* what holds of the encoder on a scalar type: an object of its class is
\* encoded and the cursor ends where the type ends
EncodeAdvancesOnScalars ==
    (pc = "done" /\ drawn.op = "encode" /\ drawn.sub.code \in ScalarCodes) =>
        /\ call.ok /\ call.st = "ok"
        /\ call.t = drawn.t + TypeLength(drawn.sub)

\* C4: after buildResult has encoded one object of the classes its type
\* tree asks for -- empty lists and dicts included, at any depth -- it has
\* succeeded and the descriptor cursor has advanced by the length of the
\* value's type subtree.
C4_EncodeAdvances ==
    (pc = "done" /\ drawn.op = "encode") =>
        /\ call.ok /\ call.st = "ok"
        /\ call.t = drawn.t + TypeLength(drawn.sub)

\* the call C4 fails on: ([], "a") under ROW(ARRAY(INTEGER), VARCHAR) -- the
\* text is encoded against INTEGER, the element type of the empty list
C4_EmptyListMisaligned ==
    /\ pc = "done" /\ drawn.op = "encode"
    /\ drawn.sub = RowOf(<<ArrayOf(Scalar(INTEGER)), Scalar(VARCHAR)>>)
    /\ drawn.value = PyTuple(<<PyList(<<>>), PyUnicode(TextA)>>)
    /\ ~call.ok
    /\ call.errors = <<resultError("INTEGER")>>

\* C5: a null at any position of any tree costs the decoder one data byte
\* and the encoder one byte 0, and moves the descriptor cursor of either past
\* exactly the one subtree of the null, whatever its kind; nothing else is
\* read, written or reported.
C5_NullSkipsSubtree ==
    /\ (pc = "done" /\ drawn.op = "decode" /\ drawn.mem[1] = 0) =>
          /\ call.st = "ok" /\ call.obj = Py_None
          /\ call.d = 1
          /\ call.t = drawn.t + TypeLength(drawn.sub)
    /\ (pc = "done" /\ drawn.op = "encode" /\ drawn.value = Py_None) =>
          /\ call.st = "ok" /\ call.ok /\ call.errors = <<>>
          /\ call.buffer.used = NewBuffer.used + 1
          /\ Drop(call.buffer.data, NewBuffer.used) = <<0>>
          /\ call.t = drawn.t + TypeLength(drawn.sub)

\* a null MAP inside a ROW inside an ARRAY has been decoded
C5_NestedNullMap ==
    /\ pc = "done" /\ drawn.op = "decode"
    /\ drawn.sub.code = MAP /\ drawn.t = 12
    /\ drawn.mem = <<0>>
    /\ call.t = 24 /\ call.d = 1

(***************************************************************************)
(* The temporal codes on their own: a wire value is decoded and the object *)
(* encoded again, or an object is encoded and the bytes decoded again.     *)
(***************************************************************************)
MaxMicros == 2

MaxDay == 2

MaxIntervalDays == 25

\* 0001-01-01, 9999-12-31 and 2024-01-15 in days since the epoch
FirstDay == DaysFromCivil(1, 1, 1)

LastDay == DaysFromCivil(9999, 12, 31)

SomeDay == DaysFromCivil(2024, 1, 15)

\* the largest days whose seconds fit 32 bits
LastIntDay == 2147483647 \div (24 * 60 * 60)

\* the microseconds of an instant: day, second of the day, microsecond
Instant(day, second, us) ==
    BigAdd(BigMulSmall(BigAdd(BigMulSmall(BigFromInt(day), 24 * 60 * 60), BigFromInt(second)),
                       MICROSECONDS),
           BigFromInt(us))

TimestampSamples ==
    {Instant(day, second, us) :
        day \in {FirstDay, -1, 0, 1, SomeDay, LastDay}, second \in {0, 1, 86399},
        us \in {0, 1, 999999}} \cup
    {BigFromInt(n) : n \in -MaxMicros..MaxMicros}

DateSamples ==
    {FirstDay, -LastIntDay - 1, -LastIntDay, LastIntDay, LastIntDay + 1, SomeDay, LastDay}
    \cup (-MaxDay..MaxDay)

OffsetSamples == {0, 1, 330, -300, 1439, -1439}

ZonedWireSamples ==
    {BigToBytes(Instant(day, second, us), 8) \o IntToBytes(offset, 2) :
        day \in {-1, 0, SomeDay}, second \in {0, 37800}, us \in {0, 123},
        offset \in OffsetSamples}

ZonedSamples ==
    {PyDateTime(c[1], c[2], c[3], c[4], c[5], c[6], us, Offset(offset)) :
        c \in {<<1970, 1, 1, 0, 0, 0>>, <<1970, 1, 1, 5, 30, 0>>, <<1969, 12, 31, 23, 59, 59>>,
               <<2024, 1, 15, 10, 30, 0>>, <<1, 1, 1, 0, 0, 0>>, <<9999, 12, 31, 23, 59, 59>>},
        us \in {0, 123, 500000}, offset \in OffsetSamples}

IntervalSamples ==
    {PyDelta(days, seconds, us) :
        days \in (-MaxIntervalDays..MaxIntervalDays) \cup {-MAX_DELTA_DAYS, MAX_DELTA_DAYS},
        seconds \in {0, 86399}, us \in {0, 499, 500, 999999}}

\* the 12 bytes before the address of an IPv4-mapped IPv6 address
MappedPrefix == Zeros(10) \o <<255, 255>>

AddressTails == {<<10, 0, 0, 1>>, <<0, 0, 0, 0>>, <<255, 255, 255, 255>>}

\* the mapped prefix, the prefixes one byte away from it, and all zeros
AddressPrefixes ==
    {MappedPrefix, Zeros(12), Fill(12, 255)} \cup
    {[MappedPrefix EXCEPT ![i] = b] : i \in 1..12, b \in {1, 254}}

AddressWireSamples == {prefix \o tail : prefix \in AddressPrefixes, tail \in AddressTails}

AddressSamples ==
    {PyIPv4(tail) : tail \in AddressTails} \cup {PyIPv6(w) : w \in AddressWireSamples}

ValueInputs ==
    {[op |-> "wire", code |-> TIMESTAMP, wire |-> BigToBytes(ts, 8)] : ts \in TimestampSamples}
    \cup {[op |-> "wire", code |-> DATE, wire |-> IntToBytes(days, 4)] : days \in DateSamples}
    \cup {[op |-> "wire", code |-> TIMESTAMP_WITH_TIME_ZONE, wire |-> w] : w \in ZonedWireSamples}
    \cup {[op |-> "object", code |-> TIMESTAMP_WITH_TIME_ZONE, value |-> v] : v \in ZonedSamples}
    \cup {[op |-> "object", code |-> INTERVAL_DAY_TO_SECOND, value |-> v] : v \in IntervalSamples}
    \cup {[op |-> "wire", code |-> IPADDRESS, wire |-> w] : w \in AddressWireSamples}
    \cup {[op |-> "object", code |-> IPADDRESS, value |-> v] : v \in AddressSamples}

InitValue ==
    /\ pc = "input"
    /\ ub \in {"wrap", "wide"}
    /\ drawn \in ValueInputs
    /\ trinoArgType = <<drawn.code>>
    /\ trinoReturnType = <<drawn.code>>
    /\ guestFunction = "f"
    /\ heap = [p \in 1..HeapSlots |-> FreeRegion]
    /\ call = NoCall
    /\ rows = {}

\* a present value of the wire bytes is decoded, and the object encoded again
DecodeEncode ==
    /\ pc = "input" /\ drawn.op = "wire"
    /\ LET Call(decoded) ==
               [op |-> "wire", decoded |-> decoded,
                encoded |-> IF decoded.st = "ok"
                            THEN buildResult(trinoReturnType, 0, decoded.obj, NewBuffer)
                            ELSE NotEncoded]
       IN  call' = Call(doBuildArgs(trinoArgType, 0, <<1>> \o drawn.wire, 0))
    /\ pc' = "done"
    /\ UNCHANGED <<ub, trinoArgType, trinoReturnType, guestFunction, heap, drawn, rows>>

\* an object is encoded, and the bytes written after the prefix decoded again
EncodeDecode ==
    /\ pc = "input" /\ drawn.op = "object"
    /\ LET Call(encoded) ==
               [op |-> "object", encoded |-> encoded,
                decoded |-> IF encoded.ok
                            THEN doBuildArgs(trinoArgType, 0,
                                             Drop(encoded.buffer.data, 4), 0)
                            ELSE Stopped("none", 0, 0)]
       IN  call' = Call(buildResult(trinoReturnType, 0, drawn.value, NewBuffer))
    /\ pc' = "done"
    /\ UNCHANGED <<ub, trinoArgType, trinoReturnType, guestFunction, heap, drawn, rows>>

NextValue == DecodeEncode \/ EncodeDecode

SpecValue == InitValue /\ [][NextValue]_vars

\* the bytes an encoding wrote after the prefix and the presence byte
Written(encoded) == Drop(encoded.buffer.data, 5)

\* the naive datetime of the UTC instant ts microseconds from the epoch, by
\* floored division
DateTimeOf(ts, tz) ==
    LET seconds == BigDivFloor(ts, MICROSECONDS)
        c       == CivilFromDays(BigToInt(BigDivFloor(seconds, 24 * 60 * 60)))
        sod     == BigModFloor(seconds, 24 * 60 * 60)
    IN  PyDateTime(c.y, c.m, c.d, sod \div 3600, (sod \div 60) % 60, sod % 60,
                   BigModFloor(ts, MICROSECONDS), tz)

\* the microseconds from the epoch of the wall clock of a datetime read as UTC
WallMicros(v) ==
    Instant(DaysFromCivil(v.y, v.m, v.d), (v.H * 60 + v.M) * 60 + v.S, v.us)

(***************************************************************************)
(* Properties of the temporal codes, checked under SpecValue.              *)
(***************************************************************************)
\* what holds of TIMESTAMP from the epoch on, and of whole seconds before it
TimestampRoundTripFromEpoch ==
    (/\ pc = "done" /\ drawn.op = "wire" /\ drawn.code = TIMESTAMP
     /\ \/ ~BigFromBytes(drawn.wire).neg
        \/ BigModFloor(BigFromBytes(drawn.wire), MICROSECONDS) = 0) =>
        /\ call.decoded.st = "ok"
        /\ call.decoded.obj = DateTimeOf(BigFromBytes(drawn.wire), <<>>)
        /\ call.encoded.ok
        /\ Written(call.encoded) = drawn.wire

\* C7: every 64-bit microsecond value ts of an instant in the years 1 to
\* 9999 -- before the epoch and with a sub-second part included -- decodes
\* under TIMESTAMP to the naive datetime of the UTC instant ts, with
\* 0 <= us < 10^6, and that datetime encodes to ts again.
C7_TimestampRoundTrip ==
    (pc = "done" /\ drawn.op = "wire" /\ drawn.code = TIMESTAMP) =>
        /\ call.decoded.st = "ok"
        /\ call.decoded.obj = DateTimeOf(BigFromBytes(drawn.wire), <<>>)
        /\ call.encoded.ok
        /\ Written(call.encoded) = drawn.wire

\* the call C7 fails on: ts = -1, one microsecond before the epoch, is
\* split into second 0 and microsecond -1, which no datetime takes
C7_BeforeEpochAborts ==
    /\ pc = "done" /\ drawn.op = "wire" /\ drawn.code = TIMESTAMP
    /\ BigFromBytes(drawn.wire) = BigFromInt(-1)
    /\ call.decoded.st = "fatal"

\* what holds of DATE where the seconds of d fit 32 bits, and in a build
\* that multiplies in 64 bits
DateRoundTripWithinInt ==
    (/\ pc = "done" /\ drawn.op = "wire" /\ drawn.code = DATE
     /\ \/ IntFromBytes(drawn.wire) \in -LastIntDay..LastIntDay
        \/ ub = "wide") =>
        LET days == IntFromBytes(drawn.wire)
            c    == CivilFromDays(days)
        IN  /\ dateSeconds(days) = BigMulSmall(BigFromInt(days), 24 * 60 * 60)
            /\ call.decoded.obj = PyDate(c.y, c.m, c.d)
            /\ Written(call.encoded) = drawn.wire

\* C8: every days-since-epoch value d of a date in the years 1 to 9999
\* decodes under DATE to the proleptic Gregorian date d days from 1970-01-01,
\* the seconds handed to gmtime being d * 86400, and that date encodes to d
\* again.
C8_DateRoundTrip ==
    (pc = "done" /\ drawn.op = "wire" /\ drawn.code = DATE) =>
        LET days == IntFromBytes(drawn.wire)
            c    == CivilFromDays(days)
        IN  /\ dateSeconds(days) = BigMulSmall(BigFromInt(days), 24 * 60 * 60)
            /\ call.decoded.st = "ok"
            /\ call.decoded.obj = PyDate(c.y, c.m, c.d)
            /\ call.encoded.ok
            /\ Written(call.encoded) = drawn.wire

\* the call C8 fails on: d = 24856 (2038-01-20), whose seconds are beyond
\* 32 bits, decoded in a build whose int product wraps: 1901-12-14
C8_WrappedDate ==
    /\ pc = "done" /\ drawn.op = "wire" /\ drawn.code = DATE
    /\ IntFromBytes(drawn.wire) = LastIntDay + 1
    /\ ub = "wrap"
    /\ call.decoded.obj = PyDate(1901, 12, 14)
    /\ IntFromBytes(Written(call.encoded)) = -LastIntDay

\* the milliseconds of a duration, as a mathematical integer
MillisOf(v) ==
    BigAdd(BigMulSmall(BigMulSmall(BigFromInt(v.days), 24 * 60 * 60), 1000),
           BigFromInt(v.seconds * 1000 + (v.microseconds + 500) \div 1000))

\* what holds of INTERVAL_DAY_TO_SECOND where the milliseconds fit 32 bits
\* (up to 24 days 20:31:23.647), and in a build that multiplies in 64 bits
IntervalMillisWithinInt ==
    (/\ pc = "done" /\ drawn.op = "object" /\ drawn.code = INTERVAL_DAY_TO_SECOND
     /\ \/ BigFitsSigned(MillisOf(drawn.value), 32)
        \/ ub = "wide") =>
        /\ call.encoded.ok
        /\ BigFromBytes(Written(call.encoded)) = MillisOf(drawn.value)

\* C9: a timedelta (days, seconds, microseconds) is encoded under
\* INTERVAL_DAY_TO_SECOND as the 64-bit value days * 86400000 + seconds * 1000
\* + floor((microseconds + 500) / 1000), for every duration of the runtime --
\* of 25 days and more, and negative ones, included; a total that 64 bits do
\* not hold is reported with NUMERIC_VALUE_OUT_OF_RANGE, never written
\* wrapped.
C9_IntervalMillis ==
    (pc = "done" /\ drawn.op = "object" /\ drawn.code = INTERVAL_DAY_TO_SECOND) =>
        IF BigFitsSigned(MillisOf(drawn.value), 64)
        THEN /\ call.encoded.ok
             /\ Len(Written(call.encoded)) = 8
             /\ BigFromBytes(Written(call.encoded)) = MillisOf(drawn.value)
        ELSE /\ ~call.encoded.ok
             /\ Len(call.encoded.errors) = 1
             /\ call.encoded.errors[1].errorCode = NUMERIC_VALUE_OUT_OF_RANGE

\* the call C9 fails on: timedelta(days=25) in a build whose int product
\* wraps is written as 2160000000 - 2^32 milliseconds
C9_WrappedInterval ==
    /\ pc = "done" /\ drawn.op = "object" /\ drawn.code = INTERVAL_DAY_TO_SECOND
    /\ drawn.value = PyDelta(25, 0, 0)
    /\ ub = "wrap"
    /\ call.encoded.ok
    /\ BigFromBytes(Written(call.encoded)) = BigFromInt(-2134967296)

\* the offset in minutes of a tzinfo of whole minutes
MinutesOf(tz) == tz[1].days * 24 * 60 + tz[1].seconds \div 60

\* the wire of a datetime with an offset: the UTC instant, then the offset
ZonedWire(v) ==
    BigToBytes(BigSub(WallMicros(v),
                      BigMulSmall(BigFromInt(MinutesOf(v.tz) * 60), MICROSECONDS)), 8)
    \o IntToBytes(MinutesOf(v.tz), 2)

\* what holds of TIMESTAMP_WITH_TIME_ZONE: the bytes encoded; and the round
\* trip of instants from the epoch on, and of whole seconds before it
ZonedEncodesInstant ==
    (pc = "done" /\ drawn.op = "object" /\ drawn.code = TIMESTAMP_WITH_TIME_ZONE) =>
        /\ call.encoded.ok
        /\ Written(call.encoded) = ZonedWire(drawn.value)
        /\ (~BigFromBytes(Take(ZonedWire(drawn.value), 8)).neg \/ drawn.value.us = 0) =>
              (call.decoded.st = "ok" /\ call.decoded.obj = drawn.value)

\* C10: a datetime of wall clock W and whole-minute offset o is encoded
\* under TIMESTAMP_WITH_TIME_ZONE as micros(W read as UTC) - o * 60 * 10^6 and
\* the 16-bit o; these bytes decode to the datetime of wall clock W and
\* offset o; and wire bytes decoded and encoded again are the same bytes.
C10_ZonedRoundTrip ==
    /\ (pc = "done" /\ drawn.op = "object" /\ drawn.code = TIMESTAMP_WITH_TIME_ZONE) =>
          /\ call.encoded.ok
          /\ Written(call.encoded) = ZonedWire(drawn.value)
          /\ call.decoded.st = "ok"
          /\ call.decoded.obj = drawn.value
    /\ (pc = "done" /\ drawn.op = "wire" /\ drawn.code = TIMESTAMP_WITH_TIME_ZONE) =>
          /\ call.decoded.st = "ok"
          /\ call.encoded.ok
          /\ Written(call.encoded) = drawn.wire

\* the call C10 fails on: 1970-01-01 00:00:00.000123 +05:30, an instant
\* before the epoch, is written as it should be, and its bytes are split
\* into second -19799 and microsecond -999877, which no datetime takes
C10_BeforeEpochAborts ==
    /\ pc = "done" /\ drawn.op = "object" /\ drawn.code = TIMESTAMP_WITH_TIME_ZONE
    /\ drawn.value = PyDateTime(1970, 1, 1, 0, 0, 0, 123, Offset(330))
    /\ call.encoded.ok
    /\ Written(call.encoded) = ZonedWire(drawn.value)
    /\ call.decoded.st = "fatal"

\* 2024-01-15 10:30:00.000123 +05:30 is written as the instant
\* 2024-01-15 05:00:00.000123 with offset 330, and read back
ZonedExample ==
    /\ pc = "done" /\ drawn.op = "object"
    /\ drawn.value = PyDateTime(2024, 1, 15, 10, 30, 0, 123, Offset(330))
    /\ Written(call.encoded) =
         BigToBytes(Instant(SomeDay, 5 * 3600, 123), 8) \o IntToBytes(330, 2)
    /\ call.decoded.obj = drawn.value

\* the 16 bytes of an address on the wire
AddressWire(v) == IF v.k = "IPv4Address" THEN MappedPrefix \o v.b ELSE v.b

\* C11: an IPv4 address a.b.c.d is written as ten 00, two FF and a b c d, an
\* IPv6 address as its 16 packed bytes, always 16 bytes after the presence
\* byte; 16 bytes decode to the IPv4 address of bytes 12..15 exactly when
\* bytes 0..11 are the mapped prefix, to an IPv6 address otherwise; and
\* every 16 bytes decoded and encoded again are the same 16 bytes.
C11_AddressWire ==
    /\ (pc = "done" /\ drawn.op = "object" /\ drawn.code = IPADDRESS) =>
          /\ call.encoded.ok /\ call.encoded.errors = <<>>
          /\ call.encoded.buffer.used = 4 + 1 + 16
          /\ Written(call.encoded) = AddressWire(drawn.value)
    /\ (pc = "done" /\ drawn.op = "wire" /\ drawn.code = IPADDRESS) =>
          /\ call.decoded.st = "ok" /\ call.decoded.d = 1 + 16
          /\ call.decoded.obj = IF Take(drawn.wire, 12) = MappedPrefix
                                THEN PyIPv4(Drop(drawn.wire, 12))
                                ELSE PyIPv6(drawn.wire)
          /\ call.encoded.ok
          /\ call.encoded.buffer.used = 4 + 1 + 16
          /\ Written(call.encoded) = drawn.wire

\* the mapped form of 10.0.0.1 is decoded to the IPv4 address and written
\* back as the same 16 bytes
C11_MappedRoundTrip ==
    /\ pc = "done" /\ drawn.op = "wire" /\ drawn.code = IPADDRESS
    /\ drawn.wire = MappedPrefix \o <<10, 0, 0, 1>>
    /\ call.decoded.obj = PyIPv4(<<10, 0, 0, 1>>)
    /\ Written(call.encoded) = drawn.wire

(***************************************************************************)
(* bufferAppend step by step: the appends of one result, from the buffer   *)
(* execute starts with.  The sizes reach the end of the i32, so the bytes  *)
(* are kept as runs: call.data is the sequence of <<byte, count>> written  *)
(* so far.  In call, before is the buffer when the append was entered and  *)
(* turn the parity of the turns the doubling loop has taken.               *)
(***************************************************************************)
\* the most appends of one result
MaxAppends == 3

\* 2^30, the greatest capacity 1024 * 2^j an i32 holds
TopCapacity == INT32_MAX \div 2 + 1

\* the sizes appended: within the first capacity, up to it, past it, past
\* several doublings, and up to and past 2^30
AppendSizes ==
    {1, InitialSize - 4, InitialSize - 3, 3000, TopCapacity \div 2,
     TopCapacity - 4, TopCapacity - 3, TopCapacity}

RECURSIVE TakeRuns(_, _)
\* the first n bytes of runs
TakeRuns(runs, n) ==
    IF n <= 0 \/ runs = <<>> THEN <<>>
    ELSE IF Head(runs)[2] <= n
    THEN <<Head(runs)>> \o TakeRuns(Tail(runs), n - Head(runs)[2])
    ELSE <<<<Head(runs)[1], n>>>>

Held(buffer) == [size |-> buffer.size, used |-> buffer.used, data |-> buffer.data]

InitAppend ==
    /\ pc = "idle"
    /\ ub \in {"wrap", "wide"}
    /\ trinoArgType = <<>>
    /\ trinoReturnType = <<>>
    /\ guestFunction = ""
    /\ heap = [p \in 1..HeapSlots |-> FreeRegion]
    /\ drawn = NoInput
    /\ rows = {}
    /\ call = [op |-> "append", size |-> NewBuffer.size, used |-> NewBuffer.used,
               data |-> <<<<0, NewBuffer.used>>>>, reallocs |-> 0, appends |-> 0,
               k |-> 0, required |-> 0, wrapped |-> FALSE, turn |-> 0,
               before |-> [size |-> NewBuffer.size, used |-> NewBuffer.used,
                           data |-> <<<<0, NewBuffer.used>>>>]]

\* bufferAppend(buffer, data, k) is entered: required = used + k, and the
\* test of bufferReserve.  The result stays within 2^31 - 1 bytes, so the
\* sum is an i32.
EnterAppend(k) ==
    /\ pc = "idle"
    /\ call.appends < MaxAppends
    /\ k <= INT32_MAX - call.used
    /\ drawn' = [op |-> "append", k |-> k, byte |-> call.appends + 1]
    /\ call' = [call EXCEPT !.before = Held(call), !.k = k,
                            !.required = call.used + k, !.appends = @ + 1,
                            !.turn = 0]
    /\ pc' = IF call.size < call.used + k THEN "double" ELSE "copy"
    /\ UNCHANGED <<ub, trinoArgType, trinoReturnType, guestFunction, heap, rows>>

\* one turn of do buffer->size *= 2 while (buffer->size < required)
DoubleStep ==
    /\ pc = "double"
    /\ call' = [call EXCEPT !.size = Twice(@), !.wrapped = @ \/ Overflows(call.size),
                            !.turn = 1 - @]
    /\ pc' = IF GoesOn(call.size, call.required) THEN "double" ELSE "realloc"
    /\ UNCHANGED <<ub, trinoArgType, trinoReturnType, guestFunction, heap, drawn, rows>>

\* buffer->data = xrealloc(buffer->data, buffer->size): the block, or FATAL
\* when realloc returns NULL
Realloc ==
    /\ pc = "realloc"
    /\ \/ pc' = "copy" /\ call' = [call EXCEPT !.reallocs = @ + 1]
       \/ pc' = "aborted" /\ call' = call
    /\ UNCHANGED <<ub, trinoArgType, trinoReturnType, guestFunction, heap, drawn, rows>>

\* memcpy(buffer->data + buffer->used, data, k); buffer->used += k
Copy ==
    /\ pc = "copy"
    /\ call' = [call EXCEPT !.data = TakeRuns(@, call.used) \o <<<<drawn.byte, call.k>>>>,
                            !.used = @ + call.k]
    /\ pc' = "idle"
    /\ UNCHANGED <<ub, trinoArgType, trinoReturnType, guestFunction, heap, drawn, rows>>

NextAppend == (\E k \in AppendSizes : EnterAppend(k)) \/ DoubleStep \/ Realloc \/ Copy

\* the instance runs on alone: a step that can be taken is taken
SpecAppend == InitAppend /\ [][NextAppend]_vars /\ WF_vars(NextAppend)

\* size is 1024 * 2^j for a j >= 0
IsCapacity(size) == \E j \in 0..20 : size = InitialSize * Pow2(j)

\* what an append of k bytes leaves, of the buffer it was entered with
GrownBy(now, was, k) ==
    /\ now.used = was.used + k
    /\ IsCapacity(now.size)
    /\ IsCapacity(was.size) /\ now.size >= was.size
    /\ now.used <= now.size
    /\ TakeRuns(now.data, was.used) = was.data

Appended == call.op = "append" /\ pc = "idle" /\ call.appends > 0

\* C18: the buffer starts with capacity 1024 and used = 4; every append of
\* k bytes leaves used greater by exactly k, the capacity 1024 * 2^j for a
\* j >= 0 and changed by doubling alone, used <= capacity, and the bytes
\* written before in [0, used) as they were.
C18_BufferGrowth ==
    /\ (call.op = "append" /\ call.appends = 0) =>
          call.size = InitialSize /\ call.used = 4
    /\ Appended => GrownBy(call, call.before, call.k)

\* what holds of C18: every append that asks for at most 2^30 bytes
BufferGrowthWithinTop ==
    /\ (call.op = "append" /\ call.appends = 0) =>
          call.size = InitialSize /\ call.used = 4
    /\ (Appended /\ call.required <= TopCapacity /\ ~call.wrapped) =>
          GrownBy(call, call.before, call.k)

\* an append past 2^30 that returned (ub = "wide"): the capacity is -2^31
AppendedPastTop ==
    /\ Appended /\ call.required > TopCapacity
    /\ call.size < 0 /\ call.used > TopCapacity

\* the loop is left with the size bufferReserve computes
StepsAgree ==
    (call.op = "append" /\ pc = "realloc") =>
        call.size = Doubled(call.before.size, call.required)

LoopLeft == pc = "realloc" /\ ~call.wrapped /\ call.size >= call.required

\* C19: with used and size in signed 32-bit integers, for every result of
\* up to 2^31 - 1 bytes, sizes above 2^30 included, used + size does not
\* wrap, no size *= 2 wraps, and the doubling loop ends with capacity >=
\* required.
C19_ReserveTerminates ==
    [](((call.op = "append" /\ pc = "double") =>
            call.required = call.before.used + call.k /\ call.required > 0)
       /\ ((call.op = "append" /\ pc = "double") => <>LoopLeft))

\* what holds of C19: the loop of every append that asks for at most 2^30
\* bytes ends so
ReserveEndsWithinTop ==
    []((call.op = "append" /\ pc = "double" /\ call.required <= TopCapacity
          /\ ~call.wrapped) => <>LoopLeft)

\* the loop that spins: the size is 0 (ub = "wrap")
Spinning == call.op = "append" /\ pc = "double" /\ call.size = 0 /\ call.wrapped

\* the doubling of 2^30 has left the i32
DoubledPastTop ==
    /\ call.op = "append" /\ call.wrapped
    /\ call.before.size <= TopCapacity /\ call.required > TopCapacity

====
